---- MODULE Spec2Model ----
(***************************************************************************)
(* Model of the NBA stats loader: the retrying API client                  *)
(* (load/modules/api.py), the phased async orchestrator                    *)
(* (load/modules/fetch.py, load/modules/fetchers.py) and the DuckDB        *)
(* warehouse writer (load/modules/warehouse.py, load/modules/utils.py).    *)
(***************************************************************************)
EXTENDS Integers, Sequences, FiniteSets, Bags, TLC

(***************************************************************************)
(* Tunables.  api.py reads both from the environment                       *)
(* (NBA_API_MAX_RETRIES, default 7; NBA_API_CONCURRENT_REQUESTS, default   *)
(* 3); the model instantiates them with small values.                      *)
(***************************************************************************)
MAX_RETRIES == 2

CONCURRENT_REQUESTS == 2

(* Sizes of the identifier lists a payload can carry. *)
MaxTeams == 2

MaxDates == 1

MaxGames == 1

MaxPlayers == 1

(* Rows of one incoming DataFrame, and rows held by the whole store. *)
MaxIncoming == 1

MaxStoreRows == 2

(* Highest attempt index a retry wait is computed for, and the number of   *)
(* steps the jitter interval [0, 1] is cut into (waits are counted in      *)
(* ticks of 1 / JitterSteps seconds).                                      *)
BBREF_MAX_RETRIES == 1

MaxPageCalls == 3

BackoffAttempts == 7

JitterSteps == 4

(* Longest resolved season list. *)
MaxSeasons == 3

(* Values of one identifier column, rows of the table a task list is       *)
(* derived from, and the largest per-list cap.                             *)
MaxIds == 2

MaxRows == 2

MaxLimit == 1

(* Longest raw label given to to_snake_case, and longest list of column    *)
(* labels given to normalize_columns.                                      *)
MaxLabelLen == 4

MaxColumns == 3

(* Result sets of a multi-table payload and rows of one result set. *)
MaxSets == 2

MaxSetRows == 1

(* Season years given on the command line: MaxYears consecutive years      *)
(* from FirstYear on (the range crosses a change of the number of digits). *)
FirstYear == 8

MaxYears == 4

(* Defaults of NBA_API_BACKOFF_INITIAL_SECONDS and                         *)
(* NBA_API_BACKOFF_MAX_SECONDS (the BBREF_ defaults are the same).         *)
BACKOFF_INITIAL_SECONDS == 2

BACKOFF_MAX_SECONDS == 120

(* Phases of one season's fetch (fetch.py: Phase 1, Phase 2, Phase 3). *)
FetchPhases == 3

VARIABLES
    pc,        \* position of the orchestrator coroutine
    exc,       \* the exception that escaped the orchestrator ("none" if none)
    task,      \* task id -> [st, attempt]: each logical call's position
    sem,       \* free permits of the asyncio.Semaphore
    team_logs, \* phase-1 team game log table (identifiers it carries)
    common_players, \* phase-1 commonallplayers table
    tables,    \* dataset name -> merged table (set of contributing tasks)
    call,      \* one logical call of each client function, observed alone
    store,     \* the raw schema of the DuckDB file: table name -> table
    backoff,   \* the retry wait one client's _retry_wait_seconds computed last
    run,       \* main of load_warehouse.py: the season loop and its effects
    resolved,  \* one call of utils.resolve_seasons: arguments and result
    fetcher,   \* one list-deriving fetcher of fetchers.py, observed alone
    norm,      \* one call of utils.to_snake_case or utils.normalize_columns
    parsed,    \* one call of api.resultset_to_df: payload, selection and result
    page       \* basketball_reference.py: _WARMED_UP and the get_page calls

vars ==
    <<pc, exc, task, sem, team_logs, common_players, tables, call, store,
      backoff, run, resolved, fetcher, norm, parsed, page>>

(***************************************************************************)
(* The API client: one iteration of the retry loop, given the 0-based      *)
(* attempt index and what the physical request produced.                   *)
(***************************************************************************)
AsyncOutcomes ==
    {"ok", "status_retry", "status_other", "timeout", "client_error",
     "content_type", "json_error"}

SyncOutcomes ==
    {"ok", "status_retry", "status_other", "timeout", "connection_error",
     "json_error"}

(* What the body of the try block of call_stats_api_async does: it returns, *)
(* sleeps and continues, or raises the named exception inside the try.      *)
AsyncTry(attempt, o) ==
    CASE o = "timeout" -> "TimeoutError"
      [] o = "client_error" -> "ClientError"
      [] o = "status_retry" ->
            IF attempt < MAX_RETRIES THEN "sleep" ELSE "ClientResponseError"
      [] o = "status_other" -> "ClientResponseError"
      [] o = "content_type" -> "ContentTypeError"
      [] o = "json_error" -> "JSONDecodeError"
      [] OTHER -> "return"

(* except (asyncio.TimeoutError, aiohttp.ClientError): ClientResponseError  *)
(* and ContentTypeError are subclasses of aiohttp.ClientError.              *)
AsyncCaught ==
    {"TimeoutError", "ClientError", "ClientResponseError", "ContentTypeError"}

(* The loop with its retry test off by one: a failure of the last permitted *)
(* attempt sleeps and retries.                                              *)
call_stats_api_async_OffByOne(attempt, o) ==
    LET r == AsyncTry(attempt, o)
    IN  IF r \in {"return", "sleep"} THEN r
        ELSE IF r \in AsyncCaught
             THEN IF attempt <= MAX_RETRIES THEN "sleep" ELSE "raise"
             ELSE "raise"

call_stats_api_async(attempt, o) ==
    LET r == AsyncTry(attempt, o)
    IN  IF r \in {"return", "sleep"} THEN r
        ELSE IF r \in AsyncCaught
             THEN IF attempt < MAX_RETRIES THEN "sleep" ELSE "raise"
             ELSE "raise"

call_stats_api(attempt, o) ==
    CASE o \in {"timeout", "connection_error"} ->
            IF attempt < MAX_RETRIES THEN "sleep" ELSE "raise"
      [] o = "status_retry" ->
            IF attempt < MAX_RETRIES THEN "sleep" ELSE "raise"
      [] o = "status_other" -> "raise"
      [] o = "json_error" -> "raise"
      [] OTHER -> "return"

(***************************************************************************)
(* Tasks of one season's load (_load_all_raw_async).                       *)
(***************************************************************************)
Phase1Tasks == {<<"team", 0>>, <<"player", 0>>, <<"common", 0>>}

RosterTasks(n) == {<<"roster", i>> : i \in 1..n}

ScoreboardTasks(n) == {<<"scoreboard", i>> : i \in 1..n}

BoxTasks(n) == {<<"box", i>> : i \in 1..n}

PlayerInfoTasks(n) == {<<"player_info", i>> : i \in 1..n}

TaskIds ==
    Phase1Tasks \cup RosterTasks(MaxTeams) \cup ScoreboardTasks(MaxDates)
        \cup BoxTasks(MaxGames) \cup PlayerInfoTasks(MaxPlayers)

Holding == {"delay", "request", "backoff", "sleep_nan"}

Returned == {"rows", "empty", "caught"}

Resolved == Returned \cup {"failed", "cancelled"}

Datasets ==
    {"team_game_logs", "player_game_logs", "common_all_players",
     "team_rosters", "schedule", "box_summaries", "player_info"}

(* A phase-1 table, reduced to the identifiers later phases derive from it. *)
(* empty stands for the test that guards a fan-out: the frame has no rows  *)
(* or lacks the identifier column the fan-out reads.                       *)
EmptyLogs == [empty |-> TRUE, teams |-> 0, dates |-> 0, games |-> 0]

TeamLogShapes ==
    {EmptyLogs} \cup
    [empty : {FALSE}, teams : 1..MaxTeams, dates : 0..MaxDates, games : 0..MaxGames]

EmptyPlayers == [empty |-> TRUE, players |-> 0]

CommonShapes == {EmptyPlayers} \cup [empty : {FALSE}, players : 0..MaxPlayers]

NoTask == [st |-> "none", attempt |-> 0]

(* The coroutines handed to a gather are scheduled; the results of the     *)
(* gathers already merged (done) are dropped with their tasks.             *)
Started(ts, done) ==
    [t \in TaskIds |->
        IF t \in ts THEN [st |-> "waiting", attempt |-> 0]
        ELSE IF t \in done /\ task[t].st \in Resolved THEN NoTask
        ELSE task[t]]

HoldingTasks == {t \in TaskIds : task[t].st \in Holding}

(* A gate that never closes. *)
CanAcquireUngated == TRUE

(* asyncio.Semaphore.acquire proceeds only while a permit is free. *)
CanAcquire == sem > 0

(* A gather that is not awaited. *)
GatherDoneNoWait(ts) == TRUE

(* A gather that returns with the first awaitable that returns. *)
GatherDoneFirst(ts) == \E t \in ts : task[t].st \in Returned

(* asyncio.gather(...) without return_exceptions returns once every        *)
(* awaitable has returned.                                                  *)
GatherDone(ts) == \A t \in ts : task[t].st \in Returned

(* ... and raises as soon as one awaitable has raised.                      *)
GatherRaised(ts) == \E t \in ts : task[t].st = "failed"

(* [d for d in dfs if not d.empty] *)
NonEmptyFrames(ts) == {t \in ts : task[t].st = "rows"}

(* pd.concat(frames): raises ValueError on an empty list of frames. *)
concat(frames) == [raises |-> frames = {}, rows |-> frames]

(* pd.DataFrame() *)
EmptyFrame == [raises |-> FALSE, rows |-> {}]

(* fetch.py: pd.concat(lst, ignore_index=True) if lst else pd.DataFrame() *)
MergeGuarded(ts) ==
    LET lst == NonEmptyFrames(ts) IN IF lst # {} THEN concat(lst) ELSE EmptyFrame

(* fetchers.py: pd.concat([d for d in dfs if not d.empty]) if dfs else pd.DataFrame() *)
MergeUnguarded(ts) ==
    IF ts # {} THEN concat(NonEmptyFrames(ts)) ELSE EmptyFrame

(***************************************************************************)
(* One logical call: call_stats_api_async under the shared semaphore.      *)
(***************************************************************************)
SetTask(t, st, attempt) == [task EXCEPT ![t] = [st |-> st, attempt |-> attempt]]

(* async with semaphore: *)
Acquire(t) ==
    /\ task[t].st = "waiting"
    /\ CanAcquire
    /\ sem' = sem - 1
    /\ task' = SetTask(t, "delay", 0)
    /\ UNCHANGED <<pc, exc, team_logs, common_players, tables, call, store,
                   backoff, run, resolved, fetcher, norm, parsed, page>>

(* await asyncio.sleep(REQUEST_DELAY_SECONDS), then the first session.get *)
DelayDone(t) ==
    /\ task[t].st = "delay"
    /\ task' = SetTask(t, "request", 0)
    /\ UNCHANGED <<pc, exc, sem, team_logs, common_players, tables, call,
                   store, backoff, run, resolved, fetcher, norm, parsed, page>>

(* A retry that gives its permit back while it sleeps. *)
RetrySleepReleases(t) ==
    /\ task[t].st = "request"
    /\ \E o \in AsyncOutcomes :
          call_stats_api_async(task[t].attempt, o) = "sleep"
    /\ task' = SetTask(t, "backoff", task[t].attempt)
    /\ sem' = sem + 1
    /\ UNCHANGED <<pc, exc, team_logs, common_players, tables, call,
                   store, backoff, run, resolved, fetcher, norm, parsed, page>>

(* the physical request fails and the loop sleeps before the next attempt *)
RetrySleep(t) ==
    /\ task[t].st = "request"
    /\ \E o \in AsyncOutcomes :
          call_stats_api_async(task[t].attempt, o) = "sleep"
    /\ task' = SetTask(t, "backoff", task[t].attempt)
    /\ UNCHANGED <<pc, exc, sem, team_logs, common_players, tables, call,
                   store, backoff, run, resolved, fetcher, norm, parsed, page>>

(* await asyncio.sleep(wait); continue *)
BackoffDone(t) ==
    /\ task[t].st = "backoff"
    /\ task' = SetTask(t, "request", task[t].attempt + 1)
    /\ UNCHANGED <<pc, exc, sem, team_logs, common_players, tables, call,
                   store, backoff, run, resolved, fetcher, norm, parsed, page>>

(* the call returns a body; the permit is released on leaving the          *)
(* async with block and the caller turns the payload into a table          *)
CallReturns(t) ==
    /\ task[t].st = "request"
    /\ \E o \in AsyncOutcomes :
          call_stats_api_async(task[t].attempt, o) = "return"
    /\ sem' = sem + 1
    /\ \/ /\ t = <<"team", 0>>
          /\ \E shape \in TeamLogShapes :
                /\ team_logs' = shape
                /\ task' = SetTask(t, IF shape.empty THEN "empty" ELSE "rows", 0)
          /\ UNCHANGED common_players
       \/ /\ t = <<"common", 0>>
          /\ \E shape \in CommonShapes :
                /\ common_players' = shape
                /\ task' = SetTask(t, IF shape.empty THEN "empty" ELSE "rows", 0)
          /\ UNCHANGED team_logs
       \/ /\ t \notin {<<"team", 0>>, <<"common", 0>>}
          /\ \E r \in {"rows", "empty"} : task' = SetTask(t, r, 0)
          /\ UNCHANGED <<team_logs, common_players>>
    /\ UNCHANGED <<pc, exc, tables, call, store, backoff, run, resolved,
                   fetcher, norm, parsed, page>>

(* A call that raises without giving its permit back. *)
CallRaisesLeak(t) ==
    /\ task[t].st = "request"
    /\ \E o \in AsyncOutcomes :
          call_stats_api_async(task[t].attempt, o) = "raise"
    /\ task' = SetTask(t, IF t \in Phase1Tasks THEN "failed" ELSE "caught", 0)
    /\ UNCHANGED <<pc, exc, sem, team_logs, common_players, tables, call,
                   store, backoff, run, resolved, fetcher, norm, parsed, page>>

(* the call raises; the permit is released on leaving the async with       *)
(* block.  A per-entity task catches the exception and returns an empty    *)
(* DataFrame; a phase-1 call has no handler around it.                     *)
CallRaises(t) ==
    /\ task[t].st = "request"
    /\ \E o \in AsyncOutcomes :
          call_stats_api_async(task[t].attempt, o) = "raise"
    /\ sem' = sem + 1
    /\ task' = SetTask(t, IF t \in Phase1Tasks THEN "failed" ELSE "caught", 0)
    /\ UNCHANGED <<pc, exc, team_logs, common_players, tables, call, store,
                   backoff, run, resolved, fetcher, norm, parsed, page>>

(***************************************************************************)
(* The orchestrator of fetch.py: _load_all_raw_async.  Each action runs    *)
(* from one await of a gather to the next.                                 *)
(***************************************************************************)
NoTables == [d \in Datasets |-> {}]

(* Phase 3, second half: commonplayerinfo for each person_id *)
PlayerEntry(cp) ==
    IF cp.empty
    THEN [pc |-> "done", start |-> {}]
    ELSE [pc |-> "players", start |-> PlayerInfoTasks(cp.players)]

(* Phase 3, first half: boxscoresummaryv2 for each game_id *)
BoxEntry(tl, cp) ==
    IF tl.empty
    THEN PlayerEntry(cp)
    ELSE [pc |-> "boxes", start |-> BoxTasks(tl.games)]

(* Phase 2 without its guard: the lookup of team_id on a frame that lacks  *)
(* the column raises KeyError out of the load.                             *)
RosterEntry_Unguarded(tl, cp) ==
    IF tl.empty
    THEN [pc |-> "raised", start |-> {}]
    ELSE [pc |-> "rosters", start |-> RosterTasks(tl.teams)]

(* Phase 2: commonteamroster for each team *)
RosterEntry(tl, cp) ==
    IF tl.empty
    THEN BoxEntry(tl, cp)
    ELSE [pc |-> "rosters", start |-> RosterTasks(tl.teams)]

(* utils.season_to_label, on the seasons of the model *)
season_to_label(season) ==
    CASE season = "2025" -> "2024-25"
      [] season = "2026" -> "2025-26"

(* No context column on the player_info frames. *)
ContextColumns_PlayerInfoBare(name) ==
    CASE name \in {"team_game_logs", "player_game_logs"} ->
            {"season", "season_label", "season_type"}
      [] name \in {"common_all_players", "team_rosters"} ->
            {"season", "season_label"}
      [] name \in {"schedule", "box_summaries"} -> {"season", "season_type"}
      [] name = "player_info" -> {}

(* the context columns the coroutine of each dataset assigns to a          *)
(* non-empty frame                                                         *)
ContextColumns(name) ==
    CASE name \in {"team_game_logs", "player_game_logs"} ->
            {"season", "season_label", "season_type"}
      [] name \in {"common_all_players", "team_rosters"} ->
            {"season", "season_label"}
      [] name \in {"schedule", "box_summaries"} -> {"season", "season_type"}
      [] name = "player_info" -> {"season"}

(* their values in every row, for a load of (season, season_type) *)
Context(name, season, season_type) ==
    [c \in ContextColumns(name) |->
        CASE c = "season" -> season
          [] c = "season_label" -> season_to_label(season)
          [] c = "season_type" -> season_type]

(* load_all_raw: the semaphore is built, the three phase-1 calls are       *)
(* handed to asyncio.gather                                                *)
StartPhase1 ==
    /\ pc = "init"
    /\ pc' = "phase1"
    /\ task' = Started(Phase1Tasks, {})
    /\ UNCHANGED <<exc, sem, team_logs, common_players, tables, call, store,
                   backoff, run, resolved, fetcher, norm, parsed, page>>

(* the phase-1 gather returns: the three tables are built and the next     *)
(* non-empty fan-out is constructed                                        *)
Phase1Done ==
    /\ pc = "phase1"
    /\ GatherDone(Phase1Tasks)
    /\ LET e == RosterEntry(team_logs, common_players)
       IN  /\ pc' = e.pc
           /\ task' = Started(e.start, Phase1Tasks)
    /\ tables' = [tables EXCEPT
                    !["team_game_logs"] = NonEmptyFrames({<<"team", 0>>}),
                    !["player_game_logs"] = NonEmptyFrames({<<"player", 0>>}),
                    !["common_all_players"] = NonEmptyFrames({<<"common", 0>>})]
    /\ UNCHANGED <<exc, sem, team_logs, common_players, call, store, backoff,
                   run, resolved, fetcher, norm, parsed, page>>

(* the phase-1 gather raises: the exception leaves _load_all_raw_async and *)
(* load_all_raw; asyncio.run cancels the calls still pending, which        *)
(* release their permits on the way out                                    *)
Phase1Raise ==
    /\ pc \in {"phase1", "f_core"}
    /\ GatherRaised(Phase1Tasks)
    /\ pc' = "raised"
    /\ exc' = "call"
    /\ task' = [t \in TaskIds |->
                  IF task[t].st \in Holding \cup {"waiting"}
                  THEN [st |-> "cancelled", attempt |-> 0]
                  ELSE task[t]]
    /\ sem' = sem + Cardinality(HoldingTasks)
    /\ UNCHANGED <<team_logs, common_players, tables, call, store, backoff,
                   run, resolved, fetcher, norm, parsed, page>>

(* The scoreboard fan-out handed to the event loop while the roster gather *)
(* is still pending.                                                       *)
RostersDone_Interleaved ==
    /\ pc = "rosters"
    /\ pc' = "scoreboards"
    /\ task' = Started(ScoreboardTasks(team_logs.dates), {})
    /\ UNCHANGED <<exc, sem, team_logs, common_players, tables, call, store,
                   backoff, run, resolved, fetcher, norm, parsed, page>>

(* the roster gather returns; the scoreboard fan-out is constructed *)
RostersDone ==
    /\ pc = "rosters"
    /\ GatherDone(RosterTasks(team_logs.teams))
    /\ pc' = "scoreboards"
    /\ task' = Started(ScoreboardTasks(team_logs.dates), {})
    /\ UNCHANGED <<exc, sem, team_logs, common_players, tables, call, store,
                   backoff, run, resolved, fetcher, norm, parsed, page>>

(* the scoreboard gather returns; rosters and schedule are merged and      *)
(* phase 3 is constructed                                                  *)
ScoreboardsDone ==
    /\ pc = "scoreboards"
    /\ GatherDone(ScoreboardTasks(team_logs.dates))
    /\ tables' = [tables EXCEPT
                    !["team_rosters"] = MergeGuarded(RosterTasks(team_logs.teams)).rows,
                    !["schedule"] = MergeGuarded(ScoreboardTasks(team_logs.dates)).rows]
    /\ LET e == BoxEntry(team_logs, common_players)
       IN  /\ pc' = e.pc
           /\ task' = Started(e.start, RosterTasks(MaxTeams) \cup ScoreboardTasks(MaxDates))
    /\ UNCHANGED <<exc, sem, team_logs, common_players, call, store, backoff,
                   run, resolved, fetcher, norm, parsed, page>>

(* the box-summary gather returns *)
BoxesDone ==
    /\ pc = "boxes"
    /\ GatherDone(BoxTasks(team_logs.games))
    /\ tables' = [tables EXCEPT
                    !["box_summaries"] = MergeGuarded(BoxTasks(team_logs.games)).rows]
    /\ LET e == PlayerEntry(common_players)
       IN  /\ pc' = e.pc
           /\ task' = Started(e.start, BoxTasks(MaxGames))
    /\ UNCHANGED <<exc, sem, team_logs, common_players, call, store, backoff,
                   run, resolved, fetcher, norm, parsed, page>>

(* the player-info gather returns; the dict of tables is returned *)
PlayersDone ==
    /\ pc = "players"
    /\ GatherDone(PlayerInfoTasks(common_players.players))
    /\ tables' = [tables EXCEPT
                    !["player_info"] =
                        MergeGuarded(PlayerInfoTasks(common_players.players)).rows]
    /\ pc' = "done"
    /\ task' = Started({}, PlayerInfoTasks(MaxPlayers))
    /\ UNCHANGED <<exc, sem, team_logs, common_players, call, store, backoff,
                   run, resolved, fetcher, norm, parsed, page>>

(* load_all_raw has returned the season's tables to main, which starts     *)
(* write_duckdb_for_season on the store connection                         *)
MainWrite ==
    /\ pc = "done"
    /\ pc' = "writing"
    /\ UNCHANGED <<exc, task, sem, team_logs, common_players, tables, call,
                   store,
                   backoff, run, resolved, fetcher, norm, parsed, page>>

(* the last upsert of the season returns *)
MainWriteDone ==
    /\ pc = "writing"
    /\ pc' = "written"
    /\ UNCHANGED <<exc, task, sem, team_logs, common_players, tables, call,
                   store,
                   backoff, run, resolved, fetcher, norm, parsed, page>>

(***************************************************************************)
(* The fetchers of fetchers.py: fetch_core, and fetch_rosters_schedule     *)
(* applied to a team log table.                                            *)
(***************************************************************************)
FanOutTasks(tl) == RosterTasks(tl.teams) \cup ScoreboardTasks(tl.dates)

(* fetch_core hands its three calls to asyncio.gather *)
FetchCoreStart ==
    /\ pc = "f_core_init"
    /\ pc' = "f_core"
    /\ task' = Started(Phase1Tasks, {})
    /\ UNCHANGED <<exc, sem, team_logs, common_players, tables, call, store,
                   backoff, run, resolved, fetcher, norm, parsed, page>>

(* the gather of fetch_core returns; the three tables are returned *)
FetchCoreDone ==
    /\ pc = "f_core"
    /\ GatherDone(Phase1Tasks)
    /\ pc' = "f_done"
    /\ tables' = [tables EXCEPT
                    !["team_game_logs"] = NonEmptyFrames({<<"team", 0>>}),
                    !["player_game_logs"] = NonEmptyFrames({<<"player", 0>>}),
                    !["common_all_players"] = NonEmptyFrames({<<"common", 0>>})]
    /\ task' = Started({}, Phase1Tasks)
    /\ UNCHANGED <<exc, sem, team_logs, common_players, call, store, backoff,
                   run, resolved, fetcher, norm, parsed, page>>

(* fetch_rosters_schedule: an empty team log returns two empty tables,     *)
(* otherwise the roster and the scoreboard coroutines are gathered         *)
(* together                                                                *)
FetchRostersScheduleStart ==
    /\ pc = "f_rs_init"
    /\ IF team_logs.empty
       THEN /\ pc' = "f_done"
            /\ UNCHANGED task
       ELSE /\ pc' = "f_rosters_schedule"
            /\ task' = Started(FanOutTasks(team_logs), {})
    /\ UNCHANGED <<exc, sem, team_logs, common_players, tables, call, store,
                   backoff, run, resolved, fetcher, norm, parsed, page>>

(* the outer gather returns; rosters, then schedule, are concatenated *)
FetchRostersScheduleDone ==
    /\ pc = "f_rosters_schedule"
    /\ GatherDone(FanOutTasks(team_logs))
    /\ LET rosters == MergeUnguarded(RosterTasks(team_logs.teams))
           schedule == MergeUnguarded(ScoreboardTasks(team_logs.dates))
       IN  IF rosters.raises \/ schedule.raises
           THEN /\ pc' = "raised"
                /\ exc' = "ValueError"
                /\ UNCHANGED tables
           ELSE /\ pc' = "f_done"
                /\ exc' = exc
                /\ tables' = [tables EXCEPT !["team_rosters"] = rosters.rows,
                                            !["schedule"] = schedule.rows]
    /\ task' = Started({}, FanOutTasks(team_logs))
    /\ UNCHANGED <<sem, team_logs, common_players, call, store, backoff, run,
                   resolved, fetcher, norm, parsed, page>>

(***************************************************************************)
(* One logical call of call_stats_api ("sync") and one of                  *)
(* call_stats_api_async ("async"), followed request by request.            *)
(*   reqs   physical requests issued so far                                *)
(*   sleeps backoff sleeps taken so far                                    *)
(*   last   what the most recent finished request produced                 *)
(*   waited the sleep that immediately preceded the most recent request:   *)
(*          the pacing delay or a retry backoff                            *)
(***************************************************************************)
Clients == {"sync", "async"}

NoCall ==
    [st |-> "idle", attempt |-> 0, reqs |-> 0, sleeps |-> 0, last |-> "none",
     waited |-> "none"]

(* A call whose loop starts without the pacing sleep. *)
NewCallNoDelay ==
    [st |-> "request", attempt |-> 0, reqs |-> 1, sleeps |-> 0, last |-> "none",
     waited |-> "none"]

(* the call has entered its pacing sleep *)
NewCall ==
    [st |-> "delay", attempt |-> 0, reqs |-> 0, sleeps |-> 0, last |-> "none",
     waited |-> "none"]

OutcomesOf(m) == IF m = "sync" THEN SyncOutcomes ELSE AsyncOutcomes

LoopStep(m, attempt, o) ==
    IF m = "sync" THEN call_stats_api(attempt, o) ELSE call_stats_api_async(attempt, o)

(* the pacing sleep ends and the loop issues its first request *)
CallDelayDone(m) ==
    /\ call[m].st = "delay"
    /\ call' = [call EXCEPT ![m].st = "request", ![m].reqs = @ + 1,
                            ![m].waited = "delay"]
    /\ UNCHANGED <<pc, exc, task, sem, team_logs, common_players, tables,
                   store, backoff, run, resolved, fetcher, norm, parsed, page>>

(* a request finishes: the loop returns, raises, or sleeps to retry *)
CallResponse(m) ==
    /\ call[m].st = "request"
    /\ \E o \in OutcomesOf(m) :
          LET r == LoopStep(m, call[m].attempt, o)
          IN  call' = [call EXCEPT
                         ![m].last = o,
                         ![m].st = CASE r = "sleep" -> "backoff"
                                     [] r = "return" -> "returned"
                                     [] OTHER -> "raised",
                         ![m].sleeps = IF r = "sleep" THEN @ + 1 ELSE @]
    /\ UNCHANGED <<pc, exc, task, sem, team_logs, common_players, tables,
                   store, backoff, run, resolved, fetcher, norm, parsed, page>>

(* the backoff sleep ends; continue with the next attempt *)
CallBackoffDone(m) ==
    /\ call[m].st = "backoff"
    /\ call' = [call EXCEPT ![m].st = "request", ![m].attempt = @ + 1,
                            ![m].reqs = @ + 1, ![m].waited = "backoff"]
    /\ UNCHANGED <<pc, exc, task, sem, team_logs, common_players, tables,
                   store, backoff, run, resolved, fetcher, norm, parsed, page>>

(***************************************************************************)
(* The warehouse: upsert_raw_table on the raw schema.  A table is an       *)
(* ordered column list and a bag of rows; a row maps column names to       *)
(* values.                                                                 *)
(***************************************************************************)
TableNames == {"team_game_logs", "team_rosters"}

Seasons == {"2025", "2026"}

SeasonTypes == {"Regular Season", "Playoffs"}

NULL == "NULL"

(* Column lists an incoming DataFrame can have. *)
Layouts ==
    {<<"a", "season", "season_type">>, <<"a", "season">>, <<"a">>,
     <<"season", "a", "b">>}

Range(f) == {f[i] : i \in DOMAIN f}

ColValues(c) ==
    CASE c = "season" -> Seasons
      [] c = "season_type" -> SeasonTypes
      [] OTHER -> {"v"}

RowsOf(cols) == {r \in [Range(cols) -> Seasons \cup SeasonTypes \cup {"v"}] :
                    \A c \in Range(cols) : r[c] \in ColValues(c)}

DataFrames ==
    UNION {[cols : {cols}, rows : UNION {[1..n -> RowsOf(cols)] : n \in 0..MaxIncoming}] :
              cols \in Layouts}

NoTable == [exists |-> FALSE, cols |-> <<>>, rows |-> EmptyBag]

RECURSIVE SeqToBag(_)
SeqToBag(rows) ==
    IF rows = <<>> THEN EmptyBag
    ELSE SetToBag({Head(rows)}) (+) SeqToBag(Tail(rows))

(* An emptiness test that looks at the columns only. *)
IsEmptyNoColumns(df) == Len(df.cols) = 0

(* df.empty *)
IsEmpty(df) == Len(df.rows) = 0 \/ Len(df.cols) = 0

(* table_exists(con, "raw", table_name) *)
table_exists(st, name) == st[name].exists

(* extra = [c for c in out.columns if c not in existing_cols] *)
ExtraColumns(df, existing_cols) ==
    LET Unknown(c) == c \notin Range(existing_cols) IN SelectSeq(df.cols, Unknown)

(* An alignment that keeps the incoming column order and appends the       *)
(* missing columns.                                                        *)
align_df_to_existing_columns_IncomingOrder(df, existing_cols) ==
    LET Known(c) == c \in Range(existing_cols)
        Missing(c) == c \notin Range(df.cols)
    IN  [cols |-> SelectSeq(df.cols, Known) \o SelectSeq(existing_cols, Missing),
         rows |-> [i \in DOMAIN df.rows |->
                     [c \in Range(existing_cols) |->
                        IF c \in Range(df.cols) THEN df.rows[i][c] ELSE NULL]],
         warned |-> ExtraColumns(df, existing_cols) # <<>>]

(* utils.align_df_to_existing_columns: missing columns become None, a      *)
(* warning is logged when extra is non-empty, the result is                *)
(* out[existing_cols]                                                      *)
align_df_to_existing_columns(df, existing_cols) ==
    [cols |-> existing_cols,
     rows |-> [i \in DOMAIN df.rows |->
                 [c \in Range(existing_cols) |->
                    IF c \in Range(df.cols) THEN df.rows[i][c] ELSE NULL]],
     warned |-> ExtraColumns(df, existing_cols) # <<>>]

(* The DELETE without its elif branch: season-only tables keep their rows.  *)
DeleteMatchesBothOnly(existing_cols, r, season, season_type) ==
    /\ "season" \in Range(existing_cols) /\ "season_type" \in Range(existing_cols)
    /\ r["season"] = season /\ r["season_type"] = season_type

(* The DELETE keyed on the season alone. *)
DeleteMatchesSeasonOnly(existing_cols, r, season, season_type) ==
    "season" \in Range(existing_cols) /\ r["season"] = season

(* the WHERE clause of the DELETE that upsert_raw_table issues; a NULL     *)
(* never compares equal                                                    *)
DeleteMatches(existing_cols, r, season, season_type) ==
    IF "season" \in Range(existing_cols) /\ "season_type" \in Range(existing_cols)
    THEN r["season"] = season /\ r["season_type"] = season_type
    ELSE IF "season" \in Range(existing_cols)
    THEN r["season"] = season
    ELSE FALSE

Remaining(tbl, season, season_type) ==
    LET keep == {r \in BagToSet(tbl.rows) :
                    ~DeleteMatches(tbl.cols, r, season, season_type)}
    IN  [r \in keep |-> tbl.rows[r]]

(* The writer that replaces an existing table by the incoming frame. *)
upsert_raw_table_Replace(st, table_name, df, season, season_type) ==
    IF Len(df.rows) = 0 \/ Len(df.cols) = 0 THEN st
    ELSE [st EXCEPT ![table_name] =
            [exists |-> TRUE, cols |-> df.cols, rows |-> SeqToBag(df.rows)]]

(* The writer without the return that ends the create branch: the new      *)
(* table goes on through alignment, DELETE and INSERT.                     *)
upsert_raw_table_CreateFallsThrough(st, table_name, df, season, season_type) ==
    IF IsEmpty(df) THEN st
    ELSE LET created ==
                 IF table_exists(st, table_name) THEN st[table_name]
                 ELSE [exists |-> TRUE, cols |-> df.cols, rows |-> SeqToBag(df.rows)]
             aligned == align_df_to_existing_columns(df, created.cols)
         IN  [st EXCEPT ![table_name] =
                [created EXCEPT !.rows =
                    Remaining(created, season, season_type)
                        (+) SeqToBag(aligned.rows)]]

(* upsert_raw_table(con, table_name, df, season, season_type): the store   *)
(* after the call                                                          *)
upsert_raw_table(st, table_name, df, season, season_type) ==
    IF IsEmpty(df) THEN st
    ELSE IF ~table_exists(st, table_name)
    THEN [st EXCEPT ![table_name] =
            [exists |-> TRUE, cols |-> df.cols, rows |-> SeqToBag(df.rows)]]
    ELSE LET existing_cols == st[table_name].cols
             aligned == align_df_to_existing_columns(df, existing_cols)
         IN  [st EXCEPT ![table_name].rows =
                Remaining(st[table_name], season, season_type)
                    (+) SeqToBag(aligned.rows)]

(* A failed INSERT that also loses the rest of the table. *)
insert_fails_Truncates(st, table_name, season, season_type) ==
    [st EXCEPT ![table_name].rows = EmptyBag]

(* upsert_raw_table when the INSERT raises: the DELETE ran as a statement  *)
(* of its own on a connection without an open transaction, so it is        *)
(* committed; the exception leaves the function with the partition gone.   *)
insert_fails(st, table_name, season, season_type) ==
    [st EXCEPT ![table_name].rows = Remaining(st[table_name], season, season_type)]

TotalRows(st) ==
    BagCardinality(st["team_game_logs"].rows) + BagCardinality(st["team_rosters"].rows)

(* write_duckdb_for_season calls upsert_raw_table for a table *)
Upsert ==
    /\ pc = "store"
    /\ \E name \in TableNames, df \in DataFrames, season \in Seasons,
          season_type \in SeasonTypes :
          LET new == upsert_raw_table(store, name, df, season, season_type)
          IN  /\ TotalRows(new) <= MaxStoreRows
              /\ store' = new
    /\ UNCHANGED <<pc, exc, task, sem, team_logs, common_players, tables,
                   call, backoff, run, resolved, fetcher, norm, parsed, page>>

(* the INSERT of an upsert into an existing table raises (or the process   *)
(* stops there); the exception leaves write_duckdb_for_season and main     *)
UpsertInsertFails ==
    /\ pc = "store"
    /\ \E df \in DataFrames : ~IsEmpty(df)
    /\ \E name \in TableNames, season \in Seasons, season_type \in SeasonTypes :
          /\ table_exists(store, name)
          /\ store' = insert_fails(store, name, season, season_type)
    /\ pc' = "store_failed"
    /\ UNCHANGED <<exc, task, sem, team_logs, common_players, tables,
                   call, backoff, run, resolved, fetcher, norm, parsed, page>>

(***************************************************************************)
(* _retry_wait_seconds of api.py and of basketball_reference.py.  A float  *)
(* is a record: either NaN or a number of ticks.                           *)
(***************************************************************************)
Num(n) == [nan |-> FALSE, v |-> n]

NaN == [nan |-> TRUE, v |-> 0]

Ticks(seconds) == seconds * JitterSteps

(* x > y on floats: false whenever an operand is NaN *)
Gt(x, y) == ~x.nan /\ ~y.nan /\ x.v > y.v

(* Python's max(a, b) and min(a, b): the first argument unless the second  *)
(* compares greater (smaller)                                              *)
max(a, b) == IF Gt(b, a) THEN b ELSE a

min(a, b) == IF Gt(a, b) THEN b ELSE a

RECURSIVE Pow2(_)
Pow2(k) == IF k = 0 THEN 1 ELSE 2 * Pow2(k - 1)

(* resp: None, or a response whose Retry-After header is absent, empty,    *)
(* text that float() rejects, a decimal number of seconds, or "nan"        *)
NoResponse == [kind |-> "none", value |-> 0]

RetryAfterSeconds == {0, 3, 30, 200}

Responses ==
    {NoResponse}
        \cup [kind : {"absent", "empty", "text", "nan"}, value : {0}]
        \cup [kind : {"number"}, value : RetryAfterSeconds]

(* float(retry_after), for the headers it accepts *)
float(resp) == IF resp.kind = "nan" THEN NaN ELSE Num(Ticks(resp.value))

(* the part both functions share once backoff is computed *)
WithRetryAfter(backoff_, resp) ==
    IF resp.kind \in {"none", "absent", "empty", "text"}
    THEN backoff_
    ELSE min(max(float(resp), backoff_), Num(Ticks(BACKOFF_MAX_SECONDS)))

(* api.py: backoff = min(BACKOFF_INITIAL_SECONDS * (2**attempt), BACKOFF_MAX_SECONDS) *)
ApiBackoff(attempt) ==
    min(Num(Ticks(BACKOFF_INITIAL_SECONDS * Pow2(attempt))),
        Num(Ticks(BACKOFF_MAX_SECONDS)))

retry_wait_seconds(attempt, resp) == WithRetryAfter(ApiBackoff(attempt), resp)

(* basketball_reference.py: the jitter is drawn inside the min *)
BbrefBackoff(attempt, jitter) ==
    min(Num(Ticks(BACKOFF_INITIAL_SECONDS * Pow2(attempt)) + jitter),
        Num(Ticks(BACKOFF_MAX_SECONDS)))

(* The jitter added to the capped value. *)
bbref_retry_wait_seconds_JitterAfterCap(attempt, resp, jitter) ==
    WithRetryAfter(
        Num(min(Num(Ticks(BACKOFF_INITIAL_SECONDS * Pow2(attempt))),
                Num(Ticks(BACKOFF_MAX_SECONDS))).v + jitter),
        resp)

bbref_retry_wait_seconds(attempt, resp, jitter) ==
    WithRetryAfter(BbrefBackoff(attempt, jitter), resp)

BackoffClients == {"stats", "bbref"}

NoBackoff ==
    [client |-> "none", attempt |-> 0, resp |-> NoResponse, jitter |-> 0,
     wait |-> Num(0), prev |-> Num(0), prev_plain |-> FALSE]

(* the wait a client computes for an attempt, remembered next to the wait  *)
(* it computed for the attempt before                                      *)
Computed(client, attempt, resp, jitter, before) ==
    [client |-> client, attempt |-> attempt, resp |-> resp, jitter |-> jitter,
     wait |-> IF client = "stats"
              THEN retry_wait_seconds(attempt, resp)
              ELSE bbref_retry_wait_seconds(attempt, resp, jitter),
     prev |-> before.wait,
     prev_plain |-> before.client # "none" /\ before.resp.kind = "none"]

(* the stats client fails attempt + 1 and computes its wait *)
StatsRetryWait ==
    /\ backoff.client = "stats"
    /\ backoff.attempt < BackoffAttempts
    /\ \E resp \in Responses :
          backoff' = Computed("stats", backoff.attempt + 1, resp, 0, backoff)
    /\ UNCHANGED <<pc, exc, task, sem, team_logs, common_players, tables,
                   call, store, run, resolved, fetcher, norm, parsed, page>>

(* the Basketball-Reference client does, drawing random.uniform(0, 1) *)
BbrefRetryWait ==
    /\ backoff.client = "bbref"
    /\ backoff.attempt < BackoffAttempts
    /\ \E resp \in Responses, jitter \in 0..JitterSteps :
          backoff' = Computed("bbref", backoff.attempt + 1, resp, jitter, backoff)
    /\ UNCHANGED <<pc, exc, task, sem, team_logs, common_players, tables,
                   call, store, run, resolved, fetcher, norm, parsed, page>>

(***************************************************************************)
(* A retry wait that is not a number.  call_stats_api_async passes the     *)
(* response to _retry_wait_seconds (api.py:146); a Retry-After header that *)
(* float() reads as nan makes the wait nan, and the call awaits            *)
(* asyncio.sleep(nan) inside the async with block.  That sleep never       *)
(* returns on the interpreters that accept the value and raises ValueError *)
(* on those that reject it; the ValueError is not among the exceptions the *)
(* retry loop catches, so it leaves the block.                             *)
(***************************************************************************)
RetrySleepNaN(t) ==
    /\ task[t].st = "request"
    /\ call_stats_api_async(task[t].attempt, "status_retry") = "sleep"
    /\ \E resp \in Responses : retry_wait_seconds(task[t].attempt, resp) = NaN
    /\ task' = SetTask(t, "sleep_nan", task[t].attempt)
    /\ UNCHANGED <<pc, exc, sem, team_logs, common_players, tables, call,
                   store, backoff, run, resolved, fetcher, norm, parsed, page>>

SleepNaNRaises(t) ==
    /\ task[t].st = "sleep_nan"
    /\ sem' = sem + 1
    /\ task' = SetTask(t, IF t \in Phase1Tasks THEN "failed" ELSE "caught", 0)
    /\ UNCHANGED <<pc, exc, team_logs, common_players, tables, call, store,
                   backoff, run, resolved, fetcher, norm, parsed, page>>

(***************************************************************************)
(* basketball_reference.py: the module-level flag _WARMED_UP and the       *)
(* get_page calls of one process, which run one after the other.           *)
(***************************************************************************)
WarmupOutcomes == {"ok", "status", "RequestException"}

PageOutcomes == {"ok", "status_other", "status_retry", "ConnectionError", "Timeout",
                 "RequestException"}

(* The warm-up without its try block: the exception of the home-page       *)
(* request leaves _warmup_session before the flag is set.                  *)
warmup_session_Uncaught(o) ==
    [warmed_up |-> o # "RequestException", raises |-> o = "RequestException"]

(* _warmup_session once its request has ended with o: a RequestException   *)
(* is logged and dropped, a response of any status is not looked at, and   *)
(* _WARMED_UP is set in every case                                         *)
warmup_session(o) == [warmed_up |-> TRUE, raises |-> FALSE]

(* one pass of the loop of get_page, for the outcome o of the request of   *)
(* the given attempt: raise_for_status raises HTTPError for a retryable    *)
(* status on the last attempt, and only ConnectionError and Timeout are    *)
(* caught                                                                  *)
get_page(attempt, o) ==
    CASE o \in {"ok", "status_other"} -> "return"
      [] o = "status_retry" ->
            IF attempt < BBREF_MAX_RETRIES THEN "sleep" ELSE "raise"
      [] o \in {"ConnectionError", "Timeout"} ->
            IF attempt < BBREF_MAX_RETRIES THEN "sleep" ELSE "raise"
      [] OTHER -> "raise"

NoPage ==
    [pc |-> "idle", warmed_up |-> FALSE, calls |-> 0, attempt |-> 0,
     warmups |-> 0, warmup |-> "none", data |-> 0, first |-> "none",
     last |-> "none", raised_by |-> "none"]

(* get_page is called: _warmup_session issues the home-page request unless *)
(* _WARMED_UP is set                                                       *)
GetPage ==
    /\ page.pc = "idle"
    /\ page.calls < MaxPageCalls
    /\ page' = [page EXCEPT
                  !.calls = @ + 1,
                  !.attempt = 0,
                  !.pc = IF page.warmed_up THEN "delay" ELSE "warmup",
                  !.warmups = IF page.warmed_up THEN @ ELSE @ + 1,
                  !.first = IF @ = "none" /\ ~page.warmed_up THEN "warmup" ELSE @]
    /\ UNCHANGED <<pc, exc, task, sem, team_logs, common_players, tables, call,
                   store, backoff, run, resolved, fetcher, norm, parsed>>

(* the home-page request ends; _warmup_session returns or raises *)
WarmupDone ==
    /\ page.pc = "warmup"
    /\ \E o \in WarmupOutcomes :
          LET w == warmup_session(o)
          IN  page' = [page EXCEPT
                         !.warmup = o,
                         !.warmed_up = w.warmed_up,
                         !.pc = IF w.raises THEN "idle" ELSE "delay",
                         !.last = IF w.raises THEN "raised" ELSE @,
                         !.raised_by = IF w.raises THEN "warmup" ELSE @]
    /\ UNCHANGED <<pc, exc, task, sem, team_logs, common_players, tables, call,
                   store, backoff, run, resolved, fetcher, norm, parsed>>

(* the pacing sleep ends and the loop issues the data request *)
PageDelayDone ==
    /\ page.pc = "delay"
    /\ page' = [page EXCEPT
                  !.pc = "request",
                  !.data = @ + 1,
                  !.first = IF @ = "none" THEN "data" ELSE @]
    /\ UNCHANGED <<pc, exc, task, sem, team_logs, common_players, tables, call,
                   store, backoff, run, resolved, fetcher, norm, parsed>>

(* the data request ends: get_page returns, raises, or sleeps and issues   *)
(* the request of the next attempt                                         *)
PageResponse ==
    /\ page.pc = "request"
    /\ \E o \in PageOutcomes :
          LET r == get_page(page.attempt, o)
          IN  page' = [page EXCEPT
                         !.pc = IF r = "sleep" THEN "request" ELSE "idle",
                         !.attempt = IF r = "sleep" THEN @ + 1 ELSE @,
                         !.data = IF r = "sleep" THEN @ + 1 ELSE @,
                         !.last = CASE r = "return" -> "returned"
                                    [] r = "raise" -> "raised"
                                    [] OTHER -> @,
                         !.raised_by = IF r = "raise" THEN o ELSE @]
    /\ UNCHANGED <<pc, exc, task, sem, team_logs, common_players, tables, call,
                   store, backoff, run, resolved, fetcher, norm, parsed>>

(***************************************************************************)
(* The task lists of fetchers.py.  One list-deriving coroutine is observed *)
(* at a time, named after the inner coroutine each of its tasks runs:      *)
(*   roster, scoreboard   fetch_rosters_schedule                           *)
(*   tl                   fetch_lineups (after its league call)            *)
(*   box, adv, trad, pbp  fetch_box_and_pbp                                *)
(*   shot_chart           fetch_shot_charts                                *)
(*   player_info          fetch_player_info                                *)
(* A table is the column the list is derived from (team_id, game_date,     *)
(* game_id, person_id; for shot charts the rows (game_id, home_team_id,    *)
(* visitor_team_id)) and whether the table has that column at all.         *)
(***************************************************************************)
ListNames ==
    {"roster", "scoreboard", "tl", "box", "adv", "trad", "pbp", "shot_chart",
     "player_info"}

(* FetchContext.limit: int | None *)
NoLimit == [none |-> TRUE, n |-> 0]

Limit(n) == [none |-> FALSE, n |-> n]

Limits == {NoLimit} \cup {Limit(n) : n \in 0..MaxLimit}

Columns == UNION {[1..k -> 1..MaxIds] : k \in 0..MaxRows}

(* rows (game_id, home_team_id, visitor_team_id) of box_summaries *)
Triples == {<<1, 1, 2>>, <<1, 2, 1>>, <<2, 1, 2>>}

SummaryRows == {<<>>} \cup {<<a>> : a \in Triples} \cup (Triples \X Triples)

InputTables(name) ==
    LET rows == IF name = "shot_chart" THEN SummaryRows ELSE Columns
    IN  {[has_col |-> TRUE, rows |-> r] : r \in rows}
            \cup {[has_col |-> FALSE, rows |-> r] : r \in {<<>>}}

(* s[:n] and DataFrame.head(n), n >= 0 *)
head(s, limit) ==
    IF limit.none \/ limit.n >= Len(s) THEN s ELSE SubSeq(s, 1, limit.n)

(* drop_duplicates / unique: the first occurrence of each value, in order *)
RECURSIVE unique(_)
unique(s) ==
    IF s = <<>> THEN <<>>
    ELSE LET r == unique(SubSeq(s, 1, Len(s) - 1))
         IN  IF s[Len(s)] \in Range(r) THEN r ELSE Append(r, s[Len(s)])

(* sorted / sort_values, ascending *)
RECURSIVE sorted(_)
sorted(s) ==
    IF s = <<>> THEN <<>>
    ELSE LET i == CHOOSE i \in 1..Len(s) :
                      /\ \A j \in 1..Len(s) : s[i] <= s[j]
                      /\ \A j \in 1..(i - 1) : s[j] # s[i]
         IN  <<s[i]>> \o sorted(SubSeq(s, 1, i - 1) \o SubSeq(s, i + 1, Len(s)))

(* Shot-chart tasks built from every row, repeated rows included. *)
RECURSIVE ShotChartTasks_EveryRow(_)
ShotChartTasks_EveryRow(box_summaries) ==
    LET rows == box_summaries
    IN  IF rows = <<>> THEN <<>>
        ELSE LET row == rows[Len(rows)]
             IN  ShotChartTasks_EveryRow(SubSeq(rows, 1, Len(rows) - 1))
                    \o <<(<<row[1], row[2]>>), (<<row[1], row[3]>>)>>

(* for each distinct row: (game_id, home_team_id), (game_id, visitor_team_id) *)
RECURSIVE ShotChartTasks(_)
ShotChartTasks(box_summaries) ==
    LET rows == unique(box_summaries)
    IN  IF rows = <<>> THEN <<>>
        ELSE LET row == rows[Len(rows)]
             IN  ShotChartTasks(SubSeq(rows, 1, Len(rows) - 1))
                    \o <<(<<row[1], row[2]>>), (<<row[1], row[3]>>)>>

(* The list a fetcher would build with no cap. *)
UncappedList(name, rows) ==
    CASE name \in {"roster", "scoreboard"} -> sorted(unique(rows))
      [] name = "shot_chart" -> ShotChartTasks(rows)
      [] OTHER -> unique(rows)

(* The list of tasks a fetcher gathers. *)
TaskList(name, limit, rows) ==
    CASE name = "roster" -> head(sorted(unique(rows)), limit)
      [] name = "scoreboard" ->
            sorted(IF limit.none THEN unique(rows)
                   ELSE head(sorted(unique(rows)), limit))
      [] name = "shot_chart" -> ShotChartTasks(rows)
      [] OTHER -> head(unique(rows), limit)

(* what each inner coroutine returns: rows, an empty frame, or the empty   *)
(* frame of its except branch                                              *)
TaskResults == {"rows", "empty", "caught"}

(* pd.concat([d for d in dfs if not d.empty]) if dfs else pd.DataFrame() *)
MergeResults(result) ==
    IF result # <<>>
    THEN concat({i \in DOMAIN result : result[i] = "rows"})
    ELSE EmptyFrame

NoFetcher ==
    [st |-> "idle", list |-> "roster", limit |-> NoLimit, skip_lineups |-> FALSE,
     table |-> [has_col |-> FALSE, rows |-> <<>>], league |-> "none",
     tasks |-> <<>>, result |-> <<>>, calls |-> 0, acquires |-> 0,
     out |-> EmptyFrame]

NewFetcher(name, limit, skip_lineups, table) ==
    [NoFetcher EXCEPT !.st = "start", !.list = name, !.limit = limit,
                      !.skip_lineups = skip_lineups, !.table = table]

Returns(f, out) == [f EXCEPT !.st = "returned", !.out = out]

(* asyncio.gather over the tasks: every task calls `one` once, and `one`   *)
(* acquires a permit for the call                                          *)
Gathers(f, tasks) ==
    [f EXCEPT !.st = "gather", !.tasks = tasks,
              !.result = [i \in DOMAIN tasks |-> "pending"],
              !.calls = @ + Len(tasks), !.acquires = @ + Len(tasks)]

(* fetch_lineups without the test of ctx.skip_lineups *)
FetcherStartNoSkip ==
    /\ fetcher.st = "start"
    /\ fetcher' =
          IF fetcher.list = "tl"
          THEN [fetcher EXCEPT !.st = "league", !.league = "pending",
                               !.calls = @ + 1, !.acquires = @ + 1]
          ELSE IF fetcher.table.rows = <<>> \/ ~fetcher.table.has_col
          THEN Returns(fetcher, EmptyFrame)
          ELSE Gathers(fetcher, TaskList(fetcher.list, fetcher.limit,
                                         fetcher.table.rows))
    /\ UNCHANGED <<pc, exc, task, sem, team_logs, common_players, tables,
                   call, store, backoff, run, resolved, norm, parsed, page>>

(* entry of a fetcher up to its first await: the early returns, the league *)
(* call of fetch_lineups, or the task list and its gather                  *)
FetcherStart ==
    /\ fetcher.st = "start"
    /\ fetcher' =
          IF fetcher.list = "tl"
          THEN IF fetcher.skip_lineups
               THEN Returns(fetcher, EmptyFrame)
               ELSE [fetcher EXCEPT !.st = "league", !.league = "pending",
                                    !.calls = @ + 1, !.acquires = @ + 1]
          ELSE IF fetcher.table.rows = <<>> \/ ~fetcher.table.has_col
          THEN Returns(fetcher, EmptyFrame)
          ELSE Gathers(fetcher, TaskList(fetcher.list, fetcher.limit,
                                         fetcher.table.rows))
    /\ UNCHANGED <<pc, exc, task, sem, team_logs, common_players, tables,
                   call, store, backoff, run, resolved, norm, parsed, page>>

(* the leaguedashlineups call resolves; team_ids is built and gathered *)
LeagueDone ==
    /\ fetcher.st = "league"
    /\ \E r \in TaskResults :
          LET f == [fetcher EXCEPT !.league = r]
              team_ids == IF fetcher.table.rows # <<>> /\ fetcher.table.has_col
                          THEN TaskList("tl", fetcher.limit, fetcher.table.rows)
                          ELSE <<>>
          IN  fetcher' = IF team_ids # <<>> THEN Gathers(f, team_ids)
                         ELSE Returns(f, EmptyFrame)
    /\ UNCHANGED <<pc, exc, task, sem, team_logs, common_players, tables,
                   call, store, backoff, run, resolved, norm, parsed, page>>

(* one task of the gather returns its frame *)
ListTaskDone(i) ==
    /\ fetcher.st = "gather"
    /\ fetcher.result[i] = "pending"
    /\ \E r \in TaskResults : fetcher' = [fetcher EXCEPT !.result[i] = r]
    /\ UNCHANGED <<pc, exc, task, sem, team_logs, common_players, tables,
                   call, store, backoff, run, resolved, norm, parsed, page>>

(* the gather returns and the frames are concatenated *)
FetcherReturn ==
    /\ fetcher.st = "gather"
    /\ \A i \in DOMAIN fetcher.result : fetcher.result[i] # "pending"
    /\ LET out == MergeResults(fetcher.result)
       IN  fetcher' = [fetcher EXCEPT
               !.st = IF out.raises THEN "ValueError" ELSE "returned",
               !.out = out]
    /\ UNCHANGED <<pc, exc, task, sem, team_logs, common_players, tables,
                   call, store, backoff, run, resolved, norm, parsed, page>>

(***************************************************************************)
(* utils.resolve_seasons.  A string is the sequence of its decimal digits; *)
(* an optional argument is None or a string, which may be empty            *)
(* (`start_season or season` takes the default for both).                  *)
(***************************************************************************)
Years == FirstYear..(FirstYear + MaxYears - 1)

RECURSIVE str(_)
str(y) == IF y < 10 THEN <<y>> ELSE Append(str(y \div 10), y % 10)

RECURSIVE int(_)
int(s) == IF Len(s) = 1 THEN s[1]
          ELSE 10 * int(SubSeq(s, 1, Len(s) - 1)) + s[Len(s)]

None == [none |-> TRUE, chars |-> <<>>]

Some(s) == [none |-> FALSE, chars |-> s]

SeasonArgs == {str(y) : y \in Years}

OptionalSeasonArgs == {None, Some(<<>>)} \cup {Some(s) : s \in SeasonArgs}

(* `x or season` *)
Or(x, season) == IF x.none \/ x.chars = <<>> THEN season ELSE x.chars

(* [str(y) for y in range(start, end)], end exclusive as in Python *)
range(start, end) ==
    IF start < end THEN [i \in 1..(end - start) |-> str(start + i - 1)] ELSE <<>>

(* A range that leaves out the end season. *)
resolve_seasons_Exclusive(season, start_season, end_season) ==
    IF start_season.none /\ end_season.none
    THEN [raised |-> FALSE, value |-> <<str(int(season))>>]
    ELSE LET start == int(Or(start_season, season))
             end == int(Or(end_season, season))
         IN  IF start > end
             THEN [raised |-> TRUE, value |-> <<>>]
             ELSE [raised |-> FALSE, value |-> range(start, end)]

resolve_seasons(season, start_season, end_season) ==
    IF start_season.none /\ end_season.none
    THEN [raised |-> FALSE, value |-> <<str(int(season))>>]
    ELSE LET start == int(Or(start_season, season))
             end == int(Or(end_season, season))
         IN  IF start > end
             THEN [raised |-> TRUE, value |-> <<>>]
             ELSE [raised |-> FALSE, value |-> range(start, end + 1)]

NoResolve ==
    [st |-> "idle", season |-> <<>>, start_season |-> None,
     end_season |-> None, value |-> <<>>]

(* the call and its outcome *)
ResolveSeasons ==
    /\ resolved.st = "args"
    /\ LET r == resolve_seasons(resolved.season, resolved.start_season,
                                resolved.end_season)
       IN  resolved' = [resolved EXCEPT
               !.st = IF r.raised THEN "ValueError" ELSE "returned",
               !.value = r.value]
    /\ UNCHANGED <<pc, exc, task, sem, team_logs, common_players, tables,
                   call, store, backoff, run, fetcher, norm, parsed, page>>

(***************************************************************************)
(* utils.to_snake_case and utils.normalize_columns.  A label is the        *)
(* sequence of its characters.                                             *)
(***************************************************************************)
Uppercase == {"W", "L", "P", "T", "S"}

Lowercase == {"w", "l", "p", "t", "s"}

Digits == {"0", "1", "2", "3", "4", "5", "6", "7", "8", "9"}

(* \w matches the letters, the digits and the underscore; \s whitespace *)
IsWord(c) == c \in Uppercase \cup Lowercase \cup Digits \cup {"_"}

IsSpace(c) == c = " "

(* str.lower *)
lower(s) ==
    [i \in DOMAIN s |->
        CASE s[i] = "W" -> "w" [] s[i] = "L" -> "l" [] s[i] = "P" -> "p"
          [] s[i] = "T" -> "t" [] s[i] = "S" -> "s" [] OTHER -> s[i]]

(* str.strip *)
RECURSIVE strip(_)
strip(s) ==
    IF s = <<>> THEN s
    ELSE IF IsSpace(s[1]) THEN strip(Tail(s))
    ELSE IF IsSpace(s[Len(s)]) THEN strip(SubSeq(s, 1, Len(s) - 1))
    ELSE s

(* re.sub(r"[^\w\s]", " ", s) *)
SubNonWord(s) ==
    [i \in DOMAIN s |-> IF IsWord(s[i]) \/ IsSpace(s[i]) THEN s[i] ELSE " "]

(* re.sub(r"\s+", "_", s) *)
RECURSIVE SubSpaces(_)
SubSpaces(s) ==
    IF s = <<>> THEN s
    ELSE LET front == SubSeq(s, 1, Len(s) - 1)
         IN  IF ~IsSpace(s[Len(s)]) THEN Append(SubSpaces(front), s[Len(s)])
             ELSE IF front # <<>> /\ IsSpace(front[Len(front)])
             THEN SubSpaces(front)
             ELSE Append(SubSpaces(front), "_")

unknown == <<"u", "n", "k", "n", "o", "w", "n">>

to_snake_case(s) ==
    LET r == lower(SubSpaces(strip(SubNonWord(s))))
    IN  IF r = <<>> THEN unknown ELSE r

(* f"{n}" for a count *)
RECURSIVE Decimal(_)
Decimal(n) ==
    LET digit ==
            <<"0", "1", "2", "3", "4", "5", "6", "7", "8", "9">>[(n % 10) + 1]
    IN  IF n < 10 THEN <<digit>> ELSE Append(Decimal(n \div 10), digit)

(* the loop of normalize_columns over the canonical names: `seen` maps a   *)
(* name to the number of its repeats so far                                *)
RECURSIVE Dedupe(_, _, _)
Dedupe(base, seen, out) ==
    IF base = <<>> THEN out
    ELSE LET name == Head(base)
         IN  IF name \in DOMAIN seen
             THEN Dedupe(Tail(base), [seen EXCEPT ![name] = @ + 1],
                         Append(out, name \o <<"_">> \o Decimal(seen[name] + 1)))
             ELSE Dedupe(Tail(base), [n \in DOMAIN seen \cup {name} |->
                                         IF n = name THEN 0 ELSE seen[n]],
                         Append(out, name))

Reverse(s) == [i \in DOMAIN s |-> s[Len(s) + 1 - i]]

(* Suffixes given in last-seen order. *)
normalize_columns_LastSeen(columns) ==
    LET base == [i \in DOMAIN columns |-> to_snake_case(columns[i])]
    IN  Reverse(Dedupe(Reverse(base), [n \in {} |-> 0], <<>>))

(* the column labels of normalize_columns(df), given those of df *)
normalize_columns(columns) ==
    LET base == [i \in DOMAIN columns |-> to_snake_case(columns[i])]
    IN  Dedupe(base, [n \in {} |-> 0], <<>>)

(* Raw labels to_snake_case is applied to. *)
LabelChars == {"W", "L", "l", "/", "%", " ", "_"}

RawLabels == UNION {[1..k -> LabelChars] : k \in 0..MaxLabelLen}

(* Column labels of a DataFrame given to normalize_columns. *)
ColumnLabels ==
    {<<"P", "t", "s">>, <<"P", "T", "S">>, <<"p", "t", "s">>,
     <<"p", "t", "s", "_", "1">>, <<"p", "t", "s", " ", "1">>}

ColumnLists == UNION {[1..k -> ColumnLabels] : k \in 0..MaxColumns}

NoNorm ==
    [st |-> "idle", label |-> <<>>, name |-> <<>>, columns |-> <<>>,
     once |-> <<>>, twice |-> <<>>]

(* to_snake_case(label) *)
SnakeCase ==
    /\ norm.st = "label"
    /\ norm' = [norm EXCEPT !.st = "named", !.name = to_snake_case(norm.label)]
    /\ UNCHANGED <<pc, exc, task, sem, team_logs, common_players, tables,
                   call, store, backoff, run, resolved, fetcher, parsed, page>>

(* normalize_columns(df) *)
Normalize ==
    /\ norm.st = "columns"
    /\ norm' = [norm EXCEPT !.st = "once",
                            !.once = normalize_columns(norm.columns)]
    /\ UNCHANGED <<pc, exc, task, sem, team_logs, common_players, tables,
                   call, store, backoff, run, resolved, fetcher, parsed, page>>

(* normalize_columns applied to its own result *)
NormalizeAgain ==
    /\ norm.st = "once"
    /\ norm' = [norm EXCEPT !.st = "twice",
                            !.twice = normalize_columns(norm.once)]
    /\ UNCHANGED <<pc, exc, task, sem, team_logs, common_players, tables,
                   call, store, backoff, run, resolved, fetcher, parsed, page>>

(***************************************************************************)
(* api.resultset_to_df.  A result set is its name and the number of its    *)
(* rows; a payload has "resultSets" as a list or as a single dict,         *)
(* "resultSet", or neither key.                                            *)
(***************************************************************************)
SetNames == {"GameHeader", "LineScore"}

ResultSets == [name : SetNames, rows : 0..MaxSetRows]

Payloads ==
    {[key |-> "resultSets", sets |-> l] :
        l \in UNION {[1..k -> ResultSets] : k \in 0..MaxSets}}
      \cup {[key |-> k, sets |-> <<rs>>] :
                k \in {"resultSets dict", "resultSet"}, rs \in ResultSets}
      \cup {[key |-> "neither", sets |-> <<>>]}

(* name: str | None *)
NoName == [given |-> FALSE, name |-> ""]

Name(n) == [given |-> TRUE, name |-> n]

Selections == {NoName} \cup {Name(n) : n \in SetNames \cup {"GameSummary"}}

(* pd.DataFrame(rs.get("rowSet", []), columns=rs.get("headers", [])) *)
Frame(rs) == [raised |-> "none", rows |-> rs.rows]

(* the first result set of the list with the given name, 0 if there is none *)
FirstNamed(sets, name) ==
    IF \E i \in DOMAIN sets : sets[i].name = name
    THEN CHOOSE i \in DOMAIN sets :
            /\ sets[i].name = name
            /\ \A j \in 1..(i - 1) : sets[j].name # name
    ELSE 0

(* index is 0-based; sets[index] raises IndexError out of range *)
resultset_to_df(payload, name, index) ==
    CASE payload.key = "resultSets dict" -> Frame(payload.sets[1])
      [] payload.key = "resultSets" ->
            IF name.given /\ FirstNamed(payload.sets, name.name) # 0
            THEN Frame(payload.sets[FirstNamed(payload.sets, name.name)])
            ELSE IF index + 1 \in DOMAIN payload.sets
            THEN Frame(payload.sets[index + 1])
            ELSE [raised |-> "IndexError", rows |-> 0]
      [] payload.key = "resultSet" -> Frame(payload.sets[1])
      [] OTHER -> [raised |-> "none", rows |-> 0]

NoParse ==
    [st |-> "idle", payload |-> [key |-> "neither", sets |-> <<>>],
     name |-> NoName, index |-> 0, df |-> [raised |-> "none", rows |-> 0]]

(* the call and its outcome *)
ResultsetToDf ==
    /\ parsed.st = "args"
    /\ LET df == resultset_to_df(parsed.payload, parsed.name, parsed.index)
       IN  parsed' = [parsed EXCEPT
               !.st = IF df.raised = "none" THEN "returned" ELSE "raised",
               !.df = df]
    /\ UNCHANGED <<pc, exc, task, sem, team_logs, common_players, tables,
                   call, store, backoff, run, resolved, fetcher, norm, page>>

(***************************************************************************)
(* main of load/load_warehouse.py: init_duckdb, then for each resolved     *)
(* season load_all_raw and write_duckdb_for_season inside try / finally    *)
(* con.close(), then the optional export and return 0.                     *)
(*   i         1-based index of the season the loop is at                  *)
(*   phase     phase of the fetch in flight                                *)
(*   fetched   seasons whose load_all_raw was called                       *)
(*   written   seasons whose write_duckdb_for_season was called            *)
(*   persisted <<season, phase>> pairs whose tables are in the store       *)
(*   late_write  a write was attempted on the closed connection            *)
(***************************************************************************)
NoRun ==
    [pc |-> "off", n |-> 0, s3_bucket |-> FALSE, i |-> 0, phase |-> 0,
     fetched |-> {}, written |-> {}, persisted |-> {}, open |-> FALSE,
     closes |-> 0, late_write |-> FALSE, error |-> "none", failed_at |-> 0,
     exported |-> FALSE, exit |-> "running"]

(* con = init_duckdb(args.db), about to enter the loop over n seasons *)
NewRun(n, s3_bucket) ==
    [NoRun EXCEPT !.pc = "loop", !.n = n, !.s3_bucket = s3_bucket, !.i = 1,
                  !.open = TRUE]

(* A finally block that closes only when the loop ended without error. *)
finally_close_OnSuccess(r) ==
    IF r.error = "none"
    THEN [r EXCEPT !.open = FALSE, !.closes = @ + 1]
    ELSE r

(* finally: con.close() *)
finally_close(r) == [r EXCEPT !.open = FALSE, !.closes = @ + 1]

(* an exception leaves the try block: the finally block runs, the          *)
(* exception leaves main and the interpreter exits non-zero                *)
Propagate(r, error) ==
    [finally_close([r EXCEPT !.error = error, !.failed_at = r.i])
        EXCEPT !.pc = "raised", !.exit = "nonzero"]

(* tables = load_all_raw(season=season, ...) is called *)
SeasonFetchStart ==
    /\ run.pc = "loop"
    /\ run.i <= run.n
    /\ run' = [run EXCEPT !.pc = "fetch", !.phase = 1,
                          !.fetched = @ \cup {run.i}]
    /\ UNCHANGED <<pc, exc, task, sem, team_logs, common_players, tables, call,
                   store, backoff, resolved, fetcher, norm, parsed, page>>

(* a phase of the fetch finishes and the next one starts *)
FetchPhaseDone ==
    /\ run.pc = "fetch"
    /\ run.phase < FetchPhases
    /\ run' = [run EXCEPT !.phase = @ + 1]
    /\ UNCHANGED <<pc, exc, task, sem, team_logs, common_players, tables, call,
                   store, backoff, resolved, fetcher, norm, parsed, page>>

(* load_all_raw returns the season's tables *)
FetchReturns ==
    /\ run.pc = "fetch"
    /\ run.phase = FetchPhases
    /\ run' = [run EXCEPT !.pc = "write"]
    /\ UNCHANGED <<pc, exc, task, sem, team_logs, common_players, tables, call,
                   store, backoff, resolved, fetcher, norm, parsed, page>>

(* a phase-1 call exhausts its retries: load_all_raw raises *)
FetchRaises ==
    /\ run.pc = "fetch"
    /\ run.phase = 1
    /\ run' = Propagate(run, "fetch")
    /\ UNCHANGED <<pc, exc, task, sem, team_logs, common_players, tables, call,
                   store, backoff, resolved, fetcher, norm, parsed, page>>

(* the run is interrupted (KeyboardInterrupt) while a phase is in flight *)
Interrupt ==
    /\ run.pc = "fetch"
    /\ run' = Propagate(run, "interrupt")
    /\ UNCHANGED <<pc, exc, task, sem, team_logs, common_players, tables, call,
                   store, backoff, resolved, fetcher, norm, parsed, page>>

(* A store error that the loop swallows before going on to the next season. *)
WriteRaisesCaught ==
    /\ run.pc = "write"
    /\ run' = [run EXCEPT !.pc = "loop", !.i = @ + 1,
                          !.written = @ \cup {run.i},
                          !.error = "store", !.failed_at = run.i]
    /\ UNCHANGED <<pc, exc, task, sem, team_logs, common_players, tables, call,
                   store, backoff, resolved, fetcher, norm, parsed, page>>

(* write_duckdb_for_season raises a store error *)
WriteRaises ==
    /\ run.pc = "write"
    /\ run' = Propagate([run EXCEPT !.written = @ \cup {run.i},
                                    !.late_write = @ \/ ~run.open],
                        "store")
    /\ UNCHANGED <<pc, exc, task, sem, team_logs, common_players, tables, call,
                   store, backoff, resolved, fetcher, norm, parsed, page>>

(* write_duckdb_for_season upserts every table of the season; the loop     *)
(* moves to the next season                                                *)
WriteSeason ==
    /\ run.pc = "write"
    /\ run' = [run EXCEPT !.pc = "loop", !.i = @ + 1,
                          !.written = @ \cup {run.i},
                          !.late_write = @ \/ ~run.open,
                          !.persisted = @ \cup {<<run.i, p>> : p \in 1..FetchPhases}]
    /\ UNCHANGED <<pc, exc, task, sem, team_logs, common_players, tables, call,
                   store, backoff, resolved, fetcher, norm, parsed, page>>

(* the loop is exhausted: the finally block runs *)
LoopExit ==
    /\ run.pc = "loop"
    /\ run.i > run.n
    /\ run' = [finally_close(run) EXCEPT !.pc = "closed"]
    /\ UNCHANGED <<pc, exc, task, sem, team_logs, common_players, tables, call,
                   store, backoff, resolved, fetcher, norm, parsed, page>>

(* An export that does not look at the bucket option. *)
FinishExportUnconditional ==
    /\ run.pc = "closed"
    /\ run' = [run EXCEPT !.pc = "done", !.exported = TRUE, !.exit = "zero"]
    /\ UNCHANGED <<pc, exc, task, sem, team_logs, common_players, tables, call,
                   store, backoff, resolved, fetcher, norm, parsed, page>>

(* export_to_s3 if a bucket is configured, then return 0 *)
Finish ==
    /\ run.pc = "closed"
    /\ run' = [run EXCEPT !.pc = "done", !.exported = run.s3_bucket,
                          !.exit = "zero"]
    /\ UNCHANGED <<pc, exc, task, sem, team_logs, common_players, tables, call,
                   store, backoff, resolved, fetcher, norm, parsed, page>>

Init ==
    /\ pc = "init"
    /\ exc = "none"
    /\ task = [t \in TaskIds |-> NoTask]
    /\ sem = CONCURRENT_REQUESTS
    /\ team_logs = EmptyLogs
    /\ common_players = EmptyPlayers
    /\ tables = NoTables
    /\ call = [m \in Clients |-> NoCall]
    /\ store = [n \in TableNames |-> NoTable]
    /\ page = NoPage
    /\ parsed = NoParse
    /\ norm = NoNorm
    /\ fetcher = NoFetcher
    /\ resolved = NoResolve
    /\ run = NoRun
    /\ backoff = NoBackoff

TaskNext ==
    \E t \in TaskIds :
        \/ Acquire(t)
        \/ DelayDone(t)
        \/ RetrySleep(t)
        \/ BackoffDone(t)
        \/ CallReturns(t)
        \/ CallRaises(t)
        \/ RetrySleepNaN(t)
        \/ SleepNaNRaises(t)

Next ==
    \/ TaskNext
    \/ StartPhase1
    \/ Phase1Done
    \/ Phase1Raise
    \/ RostersDone
    \/ ScoreboardsDone
    \/ BoxesDone
    \/ PlayersDone
    \/ MainWrite
    \/ MainWriteDone

Spec == Init /\ [][Next]_vars

(* What the event loop and the remote service guarantee: a task that can   *)
(* take a permit, a sleep of a finite length, a request in flight (which   *)
(* ends by its timeout at the latest) and a gather that can return or      *)
(* raise each take their step.  Nothing makes asyncio.sleep(nan) raise.    *)
Progress ==
    \/ \E t \in TaskIds :
          \/ Acquire(t)
          \/ DelayDone(t)
          \/ RetrySleep(t)
          \/ BackoffDone(t)
          \/ CallReturns(t)
          \/ CallRaises(t)
    \/ StartPhase1
    \/ Phase1Done
    \/ Phase1Raise
    \/ RostersDone
    \/ ScoreboardsDone
    \/ BoxesDone
    \/ PlayersDone

SpecLive == Spec /\ WF_vars(Progress)

InitFetchers ==
    /\ exc = "none"
    /\ task = [t \in TaskIds |-> NoTask]
    /\ sem = CONCURRENT_REQUESTS
    /\ common_players = EmptyPlayers
    /\ tables = NoTables
    /\ call = [m \in Clients |-> NoCall]
    /\ store = [n \in TableNames |-> NoTable]
    /\ page = NoPage
    /\ parsed = NoParse
    /\ norm = NoNorm
    /\ fetcher = NoFetcher
    /\ resolved = NoResolve
    /\ run = NoRun
    /\ backoff = NoBackoff
    /\ \/ pc = "f_core_init" /\ team_logs = EmptyLogs
       \/ pc = "f_rs_init" /\ team_logs \in TeamLogShapes

NextFetchers ==
    \/ TaskNext
    \/ FetchCoreStart
    \/ FetchCoreDone
    \/ Phase1Raise
    \/ FetchRostersScheduleStart
    \/ FetchRostersScheduleDone

SpecFetchers == InitFetchers /\ [][NextFetchers]_vars

InitCall ==
    /\ pc = "call"
    /\ exc = "none"
    /\ task = [t \in TaskIds |-> NoTask]
    /\ sem = CONCURRENT_REQUESTS
    /\ team_logs = EmptyLogs
    /\ common_players = EmptyPlayers
    /\ tables = NoTables
    /\ call = [m \in Clients |-> NewCall]
    /\ store = [n \in TableNames |-> NoTable]
    /\ page = NoPage
    /\ parsed = NoParse
    /\ norm = NoNorm
    /\ fetcher = NoFetcher
    /\ resolved = NoResolve
    /\ run = NoRun
    /\ backoff = NoBackoff

NextCall ==
    \E m \in Clients :
        \/ CallDelayDone(m)
        \/ CallResponse(m)
        \/ CallBackoffDone(m)

SpecCall == InitCall /\ [][NextCall]_vars

InitBackoff ==
    /\ pc = "backoff"
    /\ exc = "none"
    /\ task = [t \in TaskIds |-> NoTask]
    /\ sem = CONCURRENT_REQUESTS
    /\ team_logs = EmptyLogs
    /\ common_players = EmptyPlayers
    /\ tables = NoTables
    /\ call = [m \in Clients |-> NoCall]
    /\ store = [n \in TableNames |-> NoTable]
    /\ page = NoPage
    /\ parsed = NoParse
    /\ norm = NoNorm
    /\ fetcher = NoFetcher
    /\ resolved = NoResolve
    /\ run = NoRun
    /\ \E resp \in Responses, jitter \in 0..JitterSteps :
          \/ backoff = Computed("stats", 0, resp, 0, NoBackoff)
          \/ backoff = Computed("bbref", 0, resp, jitter, NoBackoff)

NextBackoff ==
    \/ StatsRetryWait
    \/ BbrefRetryWait

SpecBackoff == InitBackoff /\ [][NextBackoff]_vars

InitMain ==
    /\ pc = "main"
    /\ exc = "none"
    /\ task = [t \in TaskIds |-> NoTask]
    /\ sem = CONCURRENT_REQUESTS
    /\ team_logs = EmptyLogs
    /\ common_players = EmptyPlayers
    /\ tables = NoTables
    /\ call = [m \in Clients |-> NoCall]
    /\ store = [n \in TableNames |-> NoTable]
    /\ page = NoPage
    /\ parsed = NoParse
    /\ norm = NoNorm
    /\ fetcher = NoFetcher
    /\ resolved = NoResolve
    /\ backoff = NoBackoff
    /\ \E n \in 1..MaxSeasons, s3_bucket \in BOOLEAN : run = NewRun(n, s3_bucket)

NextMain ==
    \/ SeasonFetchStart
    \/ FetchPhaseDone
    \/ FetchReturns
    \/ FetchRaises
    \/ Interrupt
    \/ WriteRaises
    \/ WriteSeason
    \/ LoopExit
    \/ Finish

SpecMain == InitMain /\ [][NextMain]_vars

InitStore ==
    /\ pc = "store"
    /\ exc = "none"
    /\ task = [t \in TaskIds |-> NoTask]
    /\ sem = CONCURRENT_REQUESTS
    /\ team_logs = EmptyLogs
    /\ common_players = EmptyPlayers
    /\ tables = NoTables
    /\ call = [m \in Clients |-> NoCall]
    /\ store = [n \in TableNames |-> NoTable]
    /\ page = NoPage
    /\ parsed = NoParse
    /\ norm = NoNorm
    /\ fetcher = NoFetcher
    /\ resolved = NoResolve
    /\ run = NoRun
    /\ backoff = NoBackoff

NextStore == Upsert

SpecStore == InitStore /\ [][NextStore]_vars

(* the store with a write that fails between DELETE and INSERT; the        *)
(* exception ends the run of main                                          *)
NextStoreFail ==
    \/ Upsert
    \/ UpsertInsertFails

SpecStoreFail == InitStore /\ [][NextStoreFail]_vars

InitSeasons ==
    /\ pc = "seasons"
    /\ exc = "none"
    /\ task = [t \in TaskIds |-> NoTask]
    /\ sem = CONCURRENT_REQUESTS
    /\ team_logs = EmptyLogs
    /\ common_players = EmptyPlayers
    /\ tables = NoTables
    /\ call = [m \in Clients |-> NoCall]
    /\ store = [n \in TableNames |-> NoTable]
    /\ page = NoPage
    /\ parsed = NoParse
    /\ norm = NoNorm
    /\ fetcher = NoFetcher
    /\ run = NoRun
    /\ backoff = NoBackoff
    /\ \E season \in SeasonArgs, start_season, end_season \in OptionalSeasonArgs :
          resolved = [st |-> "args", season |-> season,
                      start_season |-> start_season,
                      end_season |-> end_season, value |-> <<>>]

NextSeasons == ResolveSeasons

SpecSeasons == InitSeasons /\ [][NextSeasons]_vars

InitLists ==
    /\ pc = "lists"
    /\ exc = "none"
    /\ task = [t \in TaskIds |-> NoTask]
    /\ sem = CONCURRENT_REQUESTS
    /\ team_logs = EmptyLogs
    /\ common_players = EmptyPlayers
    /\ tables = NoTables
    /\ call = [m \in Clients |-> NoCall]
    /\ store = [n \in TableNames |-> NoTable]
    /\ page = NoPage
    /\ parsed = NoParse
    /\ norm = NoNorm
    /\ run = NoRun
    /\ backoff = NoBackoff
    /\ resolved = NoResolve
    /\ \E name \in ListNames, limit \in Limits :
          \E table \in InputTables(name),
             skip_lineups \in IF name = "tl" THEN BOOLEAN ELSE {FALSE} :
             fetcher = NewFetcher(name, limit, skip_lineups, table)

NextLists ==
    \/ FetcherStart
    \/ LeagueDone
    \/ \E i \in DOMAIN fetcher.result : ListTaskDone(i)
    \/ FetcherReturn

SpecLists == InitLists /\ [][NextLists]_vars

InitSnake ==
    /\ pc = "snake"
    /\ exc = "none"
    /\ task = [t \in TaskIds |-> NoTask]
    /\ sem = CONCURRENT_REQUESTS
    /\ team_logs = EmptyLogs
    /\ common_players = EmptyPlayers
    /\ tables = NoTables
    /\ call = [m \in Clients |-> NoCall]
    /\ store = [n \in TableNames |-> NoTable]
    /\ page = NoPage
    /\ parsed = NoParse
    /\ run = NoRun
    /\ backoff = NoBackoff
    /\ resolved = NoResolve
    /\ fetcher = NoFetcher
    /\ \E label \in RawLabels : norm = [NoNorm EXCEPT !.st = "label", !.label = label]

NextSnake == SnakeCase

SpecSnake == InitSnake /\ [][NextSnake]_vars

InitColumns ==
    /\ pc = "columns"
    /\ exc = "none"
    /\ task = [t \in TaskIds |-> NoTask]
    /\ sem = CONCURRENT_REQUESTS
    /\ team_logs = EmptyLogs
    /\ common_players = EmptyPlayers
    /\ tables = NoTables
    /\ call = [m \in Clients |-> NoCall]
    /\ store = [n \in TableNames |-> NoTable]
    /\ page = NoPage
    /\ parsed = NoParse
    /\ run = NoRun
    /\ backoff = NoBackoff
    /\ resolved = NoResolve
    /\ fetcher = NoFetcher
    /\ \E columns \in ColumnLists :
          norm = [NoNorm EXCEPT !.st = "columns", !.columns = columns]

NextColumns ==
    \/ Normalize
    \/ NormalizeAgain

SpecColumns == InitColumns /\ [][NextColumns]_vars

InitPage ==
    /\ pc = "page"
    /\ exc = "none"
    /\ task = [t \in TaskIds |-> NoTask]
    /\ sem = CONCURRENT_REQUESTS
    /\ team_logs = EmptyLogs
    /\ common_players = EmptyPlayers
    /\ tables = NoTables
    /\ call = [m \in Clients |-> NoCall]
    /\ store = [n \in TableNames |-> NoTable]
    /\ backoff = NoBackoff
    /\ run = NoRun
    /\ resolved = NoResolve
    /\ fetcher = NoFetcher
    /\ norm = NoNorm
    /\ parsed = NoParse
    /\ page = NoPage

NextPage ==
    \/ GetPage
    \/ WarmupDone
    \/ PageDelayDone
    \/ PageResponse

SpecPage == InitPage /\ [][NextPage]_vars

InitParse ==
    /\ pc = "parse"
    /\ exc = "none"
    /\ task = [t \in TaskIds |-> NoTask]
    /\ sem = CONCURRENT_REQUESTS
    /\ team_logs = EmptyLogs
    /\ common_players = EmptyPlayers
    /\ tables = NoTables
    /\ call = [m \in Clients |-> NoCall]
    /\ store = [n \in TableNames |-> NoTable]
    /\ page = NoPage
    /\ run = NoRun
    /\ backoff = NoBackoff
    /\ resolved = NoResolve
    /\ fetcher = NoFetcher
    /\ norm = NoNorm
    /\ \E payload \in Payloads, name \in Selections, index \in 0..(MaxSets - 1) :
          parsed = [NoParse EXCEPT !.st = "args", !.payload = payload,
                                   !.name = name, !.index = index]

NextParse == ResultsetToDf

SpecParse == InitParse /\ [][NextParse]_vars

(***************************************************************************)
(* Properties.                                                             *)
(***************************************************************************)
Unresolved(ts) == \E t \in ts : task[t].st \in Holding \cup {"waiting"}

Constructed(ts) == \E t \in ts : task[t].st # "none"

Phase2Tasks == RosterTasks(MaxTeams) \cup ScoreboardTasks(MaxDates)

Phase3Tasks == BoxTasks(MaxGames) \cup PlayerInfoTasks(MaxPlayers)

(* C1: at most CONCURRENT_REQUESTS logical calls are inside the            *)
(* async with semaphore block at any time.                                 *)
C1_PermitBound == Cardinality(HoldingTasks) <= CONCURRENT_REQUESTS

(* every permit is taken and a further call waits at the semaphore *)
C1_Witness ==
    /\ Cardinality(HoldingTasks) = CONCURRENT_REQUESTS
    /\ \E t \in TaskIds : task[t].st = "waiting"

(* C2: no phase-2 task exists while a phase-1 call is unresolved, and no   *)
(* phase-3 task exists while a phase-2 task is unresolved.                 *)
C2_PhaseOrder ==
    /\ Constructed(Phase2Tasks) => ~Unresolved(Phase1Tasks)
    /\ Constructed(Phase3Tasks) => ~Unresolved(Phase2Tasks)

(* a phase-3 call is in flight *)
C2_Witness ==
    /\ pc \in {"boxes", "players"}
    /\ \E t \in Phase3Tasks : task[t].st = "request"

(* C3: when the gather of a per-entity fan-out has returned and a task of  *)
(* it caught the exception of its exhausted call, the fetcher finishes     *)
(* normally and each merged dataset holds exactly the rows of the tasks    *)
(* that succeeded.                                                         *)
C3_FanOutMerge ==
    [][(/\ pc = "f_rosters_schedule"
        /\ GatherDone(FanOutTasks(team_logs))
        /\ \E t \in FanOutTasks(team_logs) : task[t].st = "caught"
        /\ pc' # pc)
        => /\ pc' = "f_done"
           /\ tables'["team_rosters"] = NonEmptyFrames(RosterTasks(team_logs.teams))
           /\ tables'["schedule"] = NonEmptyFrames(ScoreboardTasks(team_logs.dates))]_vars

(* C4: when exactly one phase-1 call has exhausted its retries and the     *)
(* other two have returned, no exception escapes the orchestrator.         *)
C4_Phase1Tolerant ==
    (/\ Cardinality({t \in Phase1Tasks : task[t].st = "failed"}) = 1
     /\ Cardinality({t \in Phase1Tasks : task[t].st \in Returned}) = 2)
        => pc # "raised"

(* C5: a logical call issues at most MAX_RETRIES + 1 physical requests,   *)
(* every failed request of whatever kind advances the one attempt counter, *)
(* and a call whose last permitted request failed raises (it returns only  *)
(* after a request that succeeded).                                        *)
C5_RetryBound ==
    \A m \in Clients :
        /\ call[m].reqs <= MAX_RETRIES + 1
        /\ call[m].st \notin {"idle", "delay"} => call[m].reqs = call[m].attempt + 1
        /\ call[m].st = "returned" => call[m].last = "ok"
        /\ (call[m].st \in {"backoff", "returned", "raised"}
              /\ call[m].attempt = MAX_RETRIES /\ call[m].last # "ok")
            => call[m].st = "raised"

(* both clients have raised after a failed final attempt, one of them on a *)
(* timeout and the other on a retryable status                             *)
C5_Witness ==
    /\ \A m \in Clients :
          call[m].st = "raised" /\ call[m].reqs = MAX_RETRIES + 1
    /\ call["sync"].last = "timeout"
    /\ call["async"].last = "status_retry"

NonRetryable == {"status_other", "json_error", "content_type"}

(* C6: a request that produced a non-retryable status or an undecodable    *)
(* body ends the call at once: it is raised with no sleep and no further   *)
(* request.                                                                *)
C6_NonRetryableSurfaces ==
    \A m \in Clients : call[m].last \in NonRetryable => call[m].st = "raised"

NonEmptyFramesIn == {df \in DataFrames : ~IsEmpty(df)}

HasCol(tbl, c) == c \in Range(tbl.cols)

(* the rows of a table that belong to a season (all of them when the table *)
(* has no season column)                                                   *)
SeasonRows(tbl, season) ==
    LET keep == {r \in BagToSet(tbl.rows) :
                    HasCol(tbl, "season") => r["season"] = season}
    IN  [r \in keep |-> tbl.rows[r]]

(* C7 as stated: for any store and any non-empty rows, a second identical  *)
(* upsert leaves the season's rows as the first one left them.             *)
C7_IdempotentAnyRows ==
    \A name \in TableNames, df \in NonEmptyFramesIn, season \in Seasons,
       season_type \in SeasonTypes :
        LET once == upsert_raw_table(store, name, df, season, season_type)
            twice == upsert_raw_table(once, name, df, season, season_type)
        IN  SeasonRows(twice[name], season) = SeasonRows(once[name], season)

(* the rows as the destination receives them carry the call's partition key *)
Tagged(st, name, df, season, season_type) ==
    LET cols == IF table_exists(st, name) THEN st[name].cols ELSE df.cols
        rows == IF table_exists(st, name)
                THEN align_df_to_existing_columns(df, cols).rows
                ELSE df.rows
    IN  /\ "season" \in Range(cols)
        /\ \A i \in DOMAIN rows :
              /\ rows[i]["season"] = season
              /\ "season_type" \in Range(cols) => rows[i]["season_type"] = season_type

(* C7 (amended): when the destination has a season column and every        *)
(* incoming row carries the call's season (and its season type where the   *)
(* destination has that column), a second identical upsert leaves the      *)
(* season's rows as the first one left them.                               *)
C7_IdempotentTagged ==
    \A name \in TableNames, df \in NonEmptyFramesIn, season \in Seasons,
       season_type \in SeasonTypes :
        Tagged(store, name, df, season, season_type) =>
            LET once == upsert_raw_table(store, name, df, season, season_type)
                twice == upsert_raw_table(once, name, df, season, season_type)
            IN  SeasonRows(twice[name], season) = SeasonRows(once[name], season)

(* a table with both key columns holds a regular-season row of "2026" next *)
(* to a row of "2025", each put there by an upsert                         *)
C7_Witness ==
    \E name \in TableNames :
        /\ store[name].exists
        /\ HasCol(store[name], "season") /\ HasCol(store[name], "season_type")
        /\ \E r1, r2 \in BagToSet(store[name].rows) :
              /\ r1["season"] = "2026" /\ r1["season_type"] = "Regular Season"
              /\ r2["season"] = "2025"

(* C8: an upsert with an empty row set leaves the whole store as it was.   *)
C8_EmptyIsNoOp ==
    \A name \in TableNames, cols \in Layouts, season \in Seasons,
       season_type \in SeasonTypes :
        upsert_raw_table(store, name, [cols |-> cols, rows |-> <<>>],
                         season, season_type) = store

(* one table is absent and the other holds a row of a partition that an    *)
(* empty write could name                                                  *)
C8_Witness ==
    /\ ~store["team_rosters"].exists
    /\ store["team_game_logs"].exists
    /\ HasCol(store["team_game_logs"], "season")
    /\ \E r \in BagToSet(store["team_game_logs"].rows) : r["season"] \in Seasons

(* the partition key of a write, as the claim words it *)
InPartition(tbl, r, season, season_type) ==
    IF HasCol(tbl, "season") /\ HasCol(tbl, "season_type")
    THEN r["season"] = season /\ r["season_type"] = season_type
    ELSE HasCol(tbl, "season") /\ r["season"] = season

(* C9: an upsert on an existing table leaves the other tables as they were *)
(* and keeps every existing row outside its partition, in count and        *)
(* content.                                                                *)
C9_DeleteFrame ==
    \A name \in TableNames, df \in NonEmptyFramesIn, season \in Seasons,
       season_type \in SeasonTypes :
        store[name].exists =>
            LET new == upsert_raw_table(store, name, df, season, season_type)
                ins == SeqToBag(align_df_to_existing_columns(df, store[name].cols).rows)
            IN  /\ \A other \in TableNames \ {name} : new[other] = store[other]
                /\ \A r \in BagToSet(store[name].rows) :
                      ~InPartition(store[name], r, season, season_type) =>
                          CopiesIn(r, new[name].rows)
                              = CopiesIn(r, store[name].rows) + CopiesIn(r, ins)

(* a table with both key columns holds rows of one season under two season *)
(* types                                                                   *)
C9_Witness ==
    \E name \in TableNames :
        /\ HasCol(store[name], "season") /\ HasCol(store[name], "season_type")
        /\ \E r1, r2 \in BagToSet(store[name].rows) :
              /\ r1["season"] = r2["season"]
              /\ r1["season_type"] = "Regular Season"
              /\ r2["season_type"] = "Playoffs"

(* C10: once a table exists, no write changes its ordered column list.     *)
C10_SchemaFixed ==
    [][\A name \in TableNames :
          store[name].exists =>
              store'[name].exists /\ store'[name].cols = store[name].cols]_vars

(* a table created with season_type holds a row that a later write without *)
(* that column put there                                                   *)
C10_Witness ==
    \E name \in TableNames :
        /\ store[name].cols = <<"a", "season", "season_type">>
        /\ \E r \in BagToSet(store[name].rows) : r["season_type"] = NULL

(* C11: the aligned frame has exactly the destination's column list in its *)
(* order and as many rows as the input; a destination column missing from  *)
(* the input is null in every row, a shared column keeps its values, an    *)
(* input column unknown to the destination is gone, and a warning is       *)
(* logged exactly when a column was dropped.                               *)
C11_AlignContract ==
    \A name \in TableNames, df \in DataFrames :
        store[name].exists =>
            LET existing_cols == store[name].cols
                out == align_df_to_existing_columns(df, existing_cols)
            IN  /\ out.cols = existing_cols
                /\ Len(out.rows) = Len(df.rows)
                /\ \A i \in DOMAIN out.rows :
                      /\ DOMAIN out.rows[i] = Range(existing_cols)
                      /\ \A c \in Range(existing_cols) :
                            out.rows[i][c] =
                                IF c \in Range(df.cols) THEN df.rows[i][c] ELSE NULL
                /\ out.warned <=> (Range(df.cols) \ Range(existing_cols) # {})

(* a table laid out as season, a, b holds a row that came in without b and *)
(* was null-filled                                                         *)
C11_Witness ==
    \E name \in TableNames :
        /\ store[name].cols = <<"season", "a", "b">>
        /\ \E r \in BagToSet(store[name].rows) : r["b"] = NULL

(* C12: a non-empty write to a table that does not exist creates it with   *)
(* the incoming column list in the incoming order and exactly the incoming *)
(* rows, whatever partition key the call names, and touches nothing else.  *)
C12_CreateExact ==
    \A name \in TableNames, df \in NonEmptyFramesIn, season \in Seasons,
       season_type \in SeasonTypes :
        ~table_exists(store, name) =>
            LET new == upsert_raw_table(store, name, df, season, season_type)
            IN  /\ new[name].exists
                /\ new[name].cols = df.cols
                /\ new[name].rows = SeqToBag(df.rows)
                /\ \A other \in TableNames \ {name} : new[other] = store[other]

(* one table has been created from a frame with no key column and holds    *)
(* its row, while the other table is still absent                          *)
C12_Witness ==
    \E name \in TableNames :
        /\ store[name].exists
        /\ store[name].cols = <<"a">>
        /\ BagCardinality(store[name].rows) = 1
        /\ \E other \in TableNames \ {name} : ~store[other].exists

C14_RetryAfterBounds ==
    (backoff.client = "stats" /\ backoff.resp.kind # "none") =>
        LET computed == ApiBackoff(backoff.attempt).v
            maximum == Ticks(BACKOFF_MAX_SECONDS)
            r == Ticks(backoff.resp.value)
            larger == IF r > computed THEN r ELSE computed
        IN  /\ backoff.resp.kind = "number" =>
                  backoff.wait = Num(IF larger < maximum THEN larger ELSE maximum)
            /\ backoff.resp.kind \in {"absent", "empty", "text"} =>
                  backoff.wait = Num(computed)
            /\ ~backoff.wait.nan
            /\ backoff.wait.v >= computed
            /\ backoff.wait.v <= maximum

(* C15 as stated: every physical request, retries included, is immediately *)
(* preceded by the pacing delay.                                           *)
C15_DelayBeforeEveryRequest ==
    \A m \in Clients : call[m].reqs > 0 => call[m].waited = "delay"

(* C15 (amended): the first request of a logical call is immediately       *)
(* preceded by the pacing delay, and each retry by the backoff sleep of    *)
(* the attempt that failed.                                                *)
C15_DelayBeforeFirstRequest ==
    \A m \in Clients :
        call[m].reqs > 0 =>
            /\ call[m].attempt = 0 => call[m].waited = "delay"
            /\ call[m].attempt > 0 => call[m].waited = "backoff"

(* the synchronous call is at its first request and the asynchronous call  *)
(* at its last permitted retry                                             *)
C15_Witness ==
    /\ call["sync"].st = "request" /\ call["sync"].attempt = 0
    /\ call["sync"].waited = "delay"
    /\ call["async"].st = "request" /\ call["async"].attempt = MAX_RETRIES
    /\ call["async"].waited = "backoff"

(* C16: the permits not free are exactly those of the calls inside the     *)
(* async with block: a call that returned or raised holds none, and when   *)
(* no call is inside the block all CONCURRENT_REQUESTS permits are free.   *)
C16_PermitsReleased ==
    /\ sem + Cardinality(HoldingTasks) = CONCURRENT_REQUESTS
    /\ ~Unresolved(TaskIds) => sem = CONCURRENT_REQUESTS

(* every task of a fan-out has resolved, one of them by catching the       *)
(* exception of its call, and every permit is free                         *)
C16_Witness ==
    /\ \E t \in TaskIds : task[t].st = "caught"
    /\ \E t \in TaskIds : task[t].st = "rows"
    /\ ~Unresolved(TaskIds)
    /\ sem = CONCURRENT_REQUESTS

MainEnded == run.pc \in {"raised", "done"}

(* C17: whatever fetch failures occurred, when main has ended (not by a    *)
(* store error or an interrupt) the fetch and the write of every resolved  *)
(* season have been attempted.                                             *)
C17_EverySeasonAttempted ==
    (MainEnded /\ run.error \in {"none", "fetch"}) =>
        /\ run.fetched = 1..run.n
        /\ run.written = 1..run.n

(* C18: the connection is open and never closed while the loop runs, it    *)
(* has been closed exactly once on every path out of the loop, and no      *)
(* write is attempted on the closed connection.                            *)
C18_ClosedExactlyOnce ==
    /\ run.pc \in {"loop", "fetch", "write"} => run.open /\ run.closes = 0
    /\ run.pc \in {"closed", "raised", "done"} => ~run.open /\ run.closes = 1
    /\ ~run.late_write

(* a fetch exception ended the loop after an earlier season was written,   *)
(* and the connection is closed                                            *)
C18_Witness ==
    /\ run.pc = "raised"
    /\ run.error = "fetch"
    /\ run.written # {}
    /\ run.closes = 1

(* C19: after a store error in season i nothing later happens: no fetch    *)
(* and no write for a later season, no export, and no exit code 0.         *)
C19_StoreErrorIsFatal ==
    run.error = "store" =>
        /\ run.pc = "raised"
        /\ run.fetched = 1..run.failed_at
        /\ run.written = 1..run.failed_at
        /\ ~run.exported
        /\ run.exit = "nonzero"

(* the write of a season that is not the last raised a store error in a    *)
(* run that has an export bucket configured                                *)
C19_Witness ==
    /\ run.error = "store"
    /\ run.failed_at < run.n
    /\ run.s3_bucket
    /\ run.pc = "raised"

(* C20: when a season's run is interrupted with phase k+1 in flight, the   *)
(* tables of its phases 1..k are in the store and nothing of phase k+1 is. *)
C20_PhasesPersisted ==
    run.error = "interrupt" =>
        {p \in 1..FetchPhases : <<run.failed_at, p>> \in run.persisted}
            = 1..(run.phase - 1)

(* C21: while main executes statements on the store connection no fetch    *)
(* task of the season is waiting, in flight or holding a permit, and none  *)
(* is started before the write has finished.                               *)
C21_FetchWriteDisjoint ==
    pc = "writing" =>
        /\ ~Unresolved(TaskIds)
        /\ HoldingTasks = {}
        /\ sem = CONCURRENT_REQUESTS

(* the write of a season whose fan-outs produced roster and box-summary    *)
(* rows is in progress                                                     *)
C21_Witness ==
    /\ pc = "writing"
    /\ tables["team_rosters"] # {}
    /\ tables["box_summaries"] # {}

(* C22: the export has been invoked only if a bucket is configured, the    *)
(* loop wrote every season without an exception, and the connection was    *)
(* closed before.                                                          *)
C22_ExportAfterCleanLoop ==
    run.exported =>
        /\ run.s3_bucket
        /\ run.error = "none"
        /\ run.fetched = 1..run.n
        /\ run.written = 1..run.n
        /\ ~run.open /\ run.closes = 1

(* a run over several seasons has exported *)
C22_Witness ==
    /\ run.exported
    /\ run.n > 1
    /\ run.pc = "done"

(* C23: resolve_seasons returns [season] when neither start nor end is     *)
(* given; otherwise it raises ValueError without a list when start > end,  *)
(* and else returns every year from start to end inclusive, ascending      *)
(* without gaps or repeats, a missing start or end being the season.       *)
C23_ResolveSeasons ==
    resolved.st \in {"returned", "ValueError"} =>
        LET season == resolved.season
            given(x) == ~x.none /\ x.chars # <<>>
            first == IF given(resolved.start_season)
                     THEN int(resolved.start_season.chars) ELSE int(season)
            last == IF given(resolved.end_season)
                    THEN int(resolved.end_season.chars) ELSE int(season)
            value == resolved.value
        IN  IF resolved.start_season.none /\ resolved.end_season.none
            THEN resolved.st = "returned" /\ value = <<season>>
            ELSE IF first > last
            THEN resolved.st = "ValueError" /\ value = <<>>
            ELSE /\ resolved.st = "returned"
                 /\ Len(value) = last - first + 1
                 /\ value[1] = str(first)
                 /\ value[Len(value)] = str(last)
                 /\ \A i \in 1..(Len(value) - 1) :
                        int(value[i + 1]) = int(value[i]) + 1

(* a range of several seasons across the change of the number of digits,   *)
(* its end defaulting to the season                                        *)
C23_Witness ==
    /\ resolved.st = "returned"
    /\ resolved.end_season.none
    /\ ~resolved.start_season.none
    /\ Len(resolved.value) > 2
    /\ Len(resolved.value[1]) < Len(resolved.value[Len(resolved.value)])

(* the fetcher is past the point where it builds its task list (a         *)
(* skipping fetch_lineups builds none)                                     *)
ListBuilt ==
    /\ fetcher.st \in {"gather", "returned", "ValueError"}
    /\ ~(fetcher.list = "tl" /\ fetcher.skip_lineups)

(* C24: with skip_lineups set, fetch_lineups has issued no call and        *)
(* acquired no permit, and has returned two empty tables, whatever the     *)
(* team-log table.                                                         *)
C24_SkipLineups ==
    (fetcher.list = "tl" /\ fetcher.skip_lineups /\ fetcher.st # "start") =>
        /\ fetcher.st = "returned"
        /\ fetcher.calls = 0
        /\ fetcher.acquires = 0
        /\ fetcher.league = "none"
        /\ fetcher.tasks = <<>>
        /\ fetcher.out = EmptyFrame

(* the skipping fetch_lineups has returned for a team log of several teams *)
C24_Witness ==
    /\ fetcher.list = "tl"
    /\ fetcher.skip_lineups
    /\ fetcher.st = "returned"
    /\ Len(unique(fetcher.table.rows)) > 1

(* C25: with the cap set to L, the list of tasks a fetcher issues has at   *)
(* most L tasks and is the first L of the uncapped list, for every list    *)
(* (rosters, scoreboards, team lineups, the four box lists, shot charts,   *)
(* player info).                                                           *)
C25_CapEveryList ==
    (ListBuilt /\ ~fetcher.limit.none /\ fetcher.table.has_col) =>
        /\ Len(fetcher.tasks) <= fetcher.limit.n
        /\ fetcher.tasks =
              head(UncappedList(fetcher.list, fetcher.table.rows), fetcher.limit)

(* C26: fetch_shot_charts issues, for each distinct row (game_id,          *)
(* home_team_id, visitor_team_id) of box_summaries in turn, the task       *)
(* (game, home team) and the task (game, visitor team), and no other       *)
(* task; a task that returned rows has them in the result whichever other  *)
(* tasks failed.                                                           *)
C26_ShotChartTasks ==
    (fetcher.list = "shot_chart" /\ ListBuilt /\ fetcher.table.has_col) =>
        LET triples == unique(fetcher.table.rows)
        IN  /\ Len(fetcher.tasks) = 2 * Len(triples)
            /\ fetcher.calls = Len(fetcher.tasks)
            /\ \A k \in DOMAIN triples :
                  /\ fetcher.tasks[2 * k - 1] = <<triples[k][1], triples[k][2]>>
                  /\ fetcher.tasks[2 * k] = <<triples[k][1], triples[k][3]>>
            /\ \A k \in DOMAIN triples, l \in DOMAIN triples :
                  triples[k] = triples[l] => k = l
            /\ (/\ fetcher.st # "gather"
                /\ \E i \in DOMAIN fetcher.result : fetcher.result[i] = "caught")
                   => \A i \in DOMAIN fetcher.result :
                         fetcher.result[i] = "rows"
                             => ~fetcher.out.raises /\ i \in fetcher.out.rows

(* box_summaries repeats a row; the home task of a game failed and the     *)
(* visitor task's rows are in the result                                   *)
C26_Witness ==
    /\ fetcher.list = "shot_chart"
    /\ fetcher.st = "returned"
    /\ Len(fetcher.table.rows) > Len(unique(fetcher.table.rows))
    /\ fetcher.result[1] = "caught"
    /\ fetcher.result[2] = "rows"
    /\ 2 \in fetcher.out.rows

(* the number of earlier labels of the list with the canonical name of     *)
(* the i-th                                                                *)
EarlierSame(columns, i) ==
    Cardinality({j \in 1..(i - 1) :
                    to_snake_case(columns[j]) = to_snake_case(columns[i])})

(* C27: normalize_columns keeps the number and the positions of the        *)
(* columns; the first label with a canonical name gets the bare name and   *)
(* the n-th later one the name with the suffix _n; ["Pts","PTS","pts"]     *)
(* becomes ["pts","pts_1","pts_2"].                                        *)
C27_FirstSeenSuffix ==
    norm.st \in {"once", "twice"} =>
        /\ Len(norm.once) = Len(norm.columns)
        /\ \A i \in DOMAIN norm.columns :
              LET n == EarlierSame(norm.columns, i)
                  name == to_snake_case(norm.columns[i])
              IN  norm.once[i] = IF n = 0 THEN name
                                 ELSE name \o <<"_">> \o Decimal(n)
        /\ norm.columns = <<(<<"P", "t", "s">>), (<<"P", "T", "S">>),
                            (<<"p", "t", "s">>)>>
              => norm.once = <<(<<"p", "t", "s">>),
                               (<<"p", "t", "s", "_", "1">>),
                               (<<"p", "t", "s", "_", "2">>)>>

(* ["Pts","PTS","pts"] has been normalized *)
C27_Witness ==
    /\ norm.st = "once"
    /\ norm.columns = <<(<<"P", "t", "s">>), (<<"P", "T", "S">>),
                        (<<"p", "t", "s">>)>>
    /\ norm.once[3] = <<"p", "t", "s", "_", "2">>

(* C28: normalizing the labels normalize_columns returned gives the same   *)
(* labels again, for every list of labels.                                 *)
C28_Idempotent ==
    norm.st = "twice" => norm.twice = norm.once

(* the canonical name of the claim: the characters that are neither        *)
(* alphanumeric nor whitespace removed, the outer whitespace dropped, each *)
(* whitespace run one underscore, lowercased, "unknown" when empty         *)
Stripped(s) ==
    LET IsAlnumOrSpace(c) ==
            c \in Uppercase \cup Lowercase \cup Digits \/ IsSpace(c)
        r == lower(SubSpaces(strip(SelectSeq(s, IsAlnumOrSpace))))
    IN  IF r = <<>> THEN unknown ELSE r

(* C29: to_snake_case removes every character that is neither              *)
(* alphanumeric nor whitespace, with no separator in its place, collapses  *)
(* each whitespace run to one underscore and lowercases, an empty result   *)
(* being "unknown"; 'W/L%' becomes 'w_l_pct'.                              *)
C29_SnakeCase ==
    norm.st = "named" =>
        /\ norm.name = Stripped(norm.label)
        /\ norm.label = <<"W", "/", "L", "%">>
              => norm.name = <<"w", "_", "l", "_", "p", "c", "t">>

(* the load of the season has returned its tables *)
LoadReturned == pc \in {"done", "writing", "written"}

C31_NoMatchIsEmpty ==
    parsed.st \in {"returned", "raised"} =>
        /\ (/\ parsed.payload.key = "resultSets"
            /\ parsed.name.given
            /\ FirstNamed(parsed.payload.sets, parsed.name.name) = 0)
               => parsed.st = "returned" /\ parsed.df.rows = 0
        /\ parsed.payload.key = "neither"
               => parsed.st = "returned" /\ parsed.df.rows = 0

(* C32: when every roster task of the fan-out has failed or returned no    *)
(* rows, the fetcher still completes without raising and the roster        *)
(* dataset is an empty table.                                              *)
C32_AllFailedStillCompletes ==
    [][(/\ pc = "f_rosters_schedule"
        /\ GatherDone(FanOutTasks(team_logs))
        /\ \A t \in RosterTasks(team_logs.teams) :
              task[t].st \in {"caught", "empty"}
        /\ pc' # pc)
        => /\ pc' = "f_done"
           /\ exc' = "none"
           /\ tables'["team_rosters"] = {}]_vars

(* C33: a call keeps its permit from the pacing delay to its return or     *)
(* raise: no step that takes it from the delay to a request, from a failed *)
(* request to the backoff sleep or from the sleep to the next request      *)
(* frees a permit, and a call asleep in backoff is among the calls the     *)
(* semaphore counts.                                                       *)
C33_PermitHeldAcrossRetries ==
    [][/\ \A t \in TaskIds :
             (/\ task[t].st \in Holding
              /\ task'[t].st \in Holding
              /\ task'[t] # task[t]) => sem' = sem
       /\ sem' + Cardinality({t \in TaskIds : task'[t].st \in Holding})
             = CONCURRENT_REQUESTS]_vars

(* no permit is free while a call sleeps in backoff and another task waits *)
(* at the semaphore                                                        *)
C33_Witness ==
    /\ sem = 0
    /\ \E t \in TaskIds : task[t].st = "backoff"
    /\ \E t \in TaskIds : task[t].st = "waiting"

(* the load has returned its tables or raised *)
LoadEnded == pc \in {"done", "writing", "written", "raised"}

C35_AtomicOnFailure ==
    [][pc' = "store_failed" =>
          \A name \in TableNames :
              \A r \in BagToSet(store[name].rows) :
                  CopiesIn(r, store'[name].rows) >= CopiesIn(r, store[name].rows)]_vars

(* C35 (amended): a call whose INSERT fails after the DELETE has lost the  *)
(* rows of its partition and nothing else: the other tables, the column    *)
(* list and every row outside the partition are as before and no row is    *)
(* new; the DELETE of a later upsert of the same partition leaves the rows *)
(* it would have left without the failure, so a later call that completes  *)
(* ends with the store an unfailed call would have produced.               *)
C35_ReplaySafe ==
    [][pc' = "store_failed" =>
          \E name \in TableNames, season \in Seasons, season_type \in SeasonTypes :
              /\ \A other \in TableNames \ {name} : store'[other] = store[other]
              /\ store'[name].exists /\ store'[name].cols = store[name].cols
              /\ \A r \in BagToSet(store[name].rows) :
                    CopiesIn(r, store'[name].rows) =
                        IF InPartition(store[name], r, season, season_type)
                        THEN 0 ELSE CopiesIn(r, store[name].rows)
              /\ \A r \in BagToSet(store'[name].rows) : BagIn(r, store[name].rows)
              /\ Remaining(store'[name], season, season_type)
                    = Remaining(store[name], season, season_type)]_vars

(* a failed call has left a table without rows: every upsert that         *)
(* completes leaves at least one row in its table, so the partition was    *)
(* deleted and not repopulated                                             *)
C35_Witness ==
    /\ pc = "store_failed"
    /\ \E name \in TableNames :
          /\ store[name].exists
          /\ HasCol(store[name], "season")
          /\ store[name].rows = EmptyBag

(* the rows of a frame as upsert_raw_table inserts them into an existing   *)
(* table                                                                   *)
InsertedRows(st, name, df) == align_df_to_existing_columns(df, st[name].cols).rows

(* the DELETE of a later upsert of the partition removes the row r *)
RemovedByLater(st, name, r, season, season_type) ==
    ~BagIn(r, Remaining(st[name], season, season_type))

(* C36 as stated: every row an upsert inserts into an existing table is    *)
(* removed by a later upsert of the same table, season and season type.    *)
C36_InsertedRowsMatched ==
    \A name \in TableNames, df \in NonEmptyFramesIn, season \in Seasons,
       season_type \in SeasonTypes :
        store[name].exists =>
            LET once == upsert_raw_table(store, name, df, season, season_type)
                ins == InsertedRows(store, name, df)
            IN  \A i \in DOMAIN ins :
                    RemovedByLater(once, name, ins[i], season, season_type)

(* C36 (amended): a row that an upsert inserts into an existing table is   *)
(* removed by a later upsert of the same table, season and season type     *)
(* exactly when the destination has a season column and the row as         *)
(* inserted carries the call's season and, where the destination has a     *)
(* season_type column, the call's season type; a row whose key column was  *)
(* null-filled, a row of another season and a row of a table without a     *)
(* season column stay.                                                     *)
C36_TaggedRowsMatched ==
    \A name \in TableNames, df \in NonEmptyFramesIn, season \in Seasons,
       season_type \in SeasonTypes :
        store[name].exists =>
            LET once == upsert_raw_table(store, name, df, season, season_type)
                ins == InsertedRows(store, name, df)
            IN  \A i \in DOMAIN ins :
                    RemovedByLater(once, name, ins[i], season, season_type)
                        <=> /\ HasCol(store[name], "season")
                            /\ ins[i]["season"] = season
                            /\ HasCol(store[name], "season_type")
                                  => ins[i]["season_type"] = season_type

(* a table with both key columns holds a row that carries them next to a   *)
(* row whose season_type was null-filled on insertion                      *)
C36_Witness ==
    \E name \in TableNames :
        /\ HasCol(store[name], "season") /\ HasCol(store[name], "season_type")
        /\ \E r1, r2 \in BagToSet(store[name].rows) :
              /\ r1["season_type"] = NULL
              /\ r2["season_type"] \in SeasonTypes
              /\ r1["season"] = r2["season"]

(* C37: the labels normalize_columns returns are pairwise distinct, for    *)
(* every list of labels.                                                   *)
C37_PairwiseDistinct ==
    norm.st \in {"once", "twice"} =>
        \A i, j \in DOMAIN norm.once : i # j => norm.once[i] # norm.once[j]

C40_WarmupOnce ==
    /\ page.warmups <= 1
    /\ page.first # "data"
    /\ page.data > 0 => page.warmups = 1 /\ page.warmed_up
    /\ page.warmup # "none" => page.warmed_up
    /\ page.raised_by # "warmup"

(* after a warm-up that failed, a later get_page call has gone straight to *)
(* its data request and returned                                           *)
C40_Witness ==
    /\ page.warmup = "RequestException"
    /\ page.calls = MaxPageCalls
    /\ page.pc = "idle"
    /\ page.last = "returned"
    /\ page.warmups = 1

====
